---- MODULE Spec2Model ----
(***************************************************************************)
(* Model of the OAuth token lifecycle and the authenticated request layer  *)
(* of SpotifyForStreamController (utils/SpotifyController.py, main.py,     *)
(* utils/WebAuthWindow.py).                                                *)
(*                                                                         *)
(* Python values are encoded as strings: None is the Python None / JSON    *)
(* null, Absent is a key that is missing from a dict, "True"/"False" are   *)
(* the Python booleans a method returns.  A Python exception that leaves   *)
(* a method is the return value Raised(<exception class>).                 *)
(***************************************************************************)
EXTENDS Integers, Sequences, FiniteSets, TLC

----------------------------------------------------------------------------
(* Bounds of the model                                                     *)

\* last value of the wall clock (seconds)
MaxNow == 3
\* longest time that passes between the construction of a Token and the
\* validity re-check of get_valid_token_string
MaxDelay == 1

----------------------------------------------------------------------------
(* Python values                                                           *)

None == "None"
Absent == "<absent>"
PyTrue == "True"
PyFalse == "False"

\* truthiness of a dict entry as Python's `not x` sees it
Truthy(v) == v \notin {Absent, None, ""}

\* dict.get(key): a missing key reads as None
Get(v) == IF v = Absent THEN None ELSE v

Raised(exc) == "raise " \o exc

IsRaised(v) ==
  v \in { Raised(exc) : exc \in {"AttributeError", "JSONDecodeError", "KeyError", "IndexError"} }

Min(a, b) == IF a < b THEN a ELSE b
Max(a, b) == IF a > b THEN a ELSE b

----------------------------------------------------------------------------
(* Token                                                                   *)

buffer_seconds == 60

\* Token.__init__: expires_at = now + max(0, expires_in - buffer_seconds)
\* variant: no safety buffer is subtracted
Token_without_buffer(token_string, expires_in, now) ==
  [token_string |-> token_string, expires_at |-> now + Max(0, expires_in)]

Token(token_string, expires_in, now) ==
  [token_string |-> token_string,
   expires_at   |-> now + Max(0, expires_in - buffer_seconds)]

\* Optional[Token] = None
NoToken == [token_string |-> None, expires_at |-> 0]

\* Token.is_valid
\* variant: the Token still counts as valid at the instant it expires
is_valid_at_expiry(tok, now) == now <= tok.expires_at

is_valid(tok, now) == now < tok.expires_at

\* `self.access_token_obj and self.access_token_obj.is_valid`
HoldsValidToken(tok, now) == tok # NoToken /\ is_valid(tok, now)

----------------------------------------------------------------------------
(* Responses of the token endpoint and of the Web API                      *)

IntVal(n) == [t |-> "int", v |-> n]
NoInt(tag) == [t |-> tag, v |-> 0]

\* expires_in values the token endpoint answers with
ExpiresInValues == {0, 60, 61, 62}

Body(json, at, ei, rt, err) ==
  [json |-> json, access_token |-> at, expires_in |-> ei,
   refresh_token |-> rt, error |-> err]

NoBody == Body("notjson", Absent, NoInt("absent"), Absent, Absent)

\* well-formed grant answers
OkBodies ==
  { Body("object", at, IntVal(ei), rt, Absent) :
      at \in {"T1", "T2"}, ei \in ExpiresInValues, rt \in {Absent, "R2"} }

\* answers with status 200 that are not a well-formed grant
MalformedBodies ==
  { NoBody,
    Body("nonobject", Absent, NoInt("absent"), Absent, Absent),
    Body("object", Absent, IntVal(62), "R2", Absent),
    Body("object", "", IntVal(62), "R2", Absent),
    Body("object", "T2", NoInt("absent"), "R2", Absent),
    Body("object", "T2", NoInt("str"), "R2", Absent) }

ErrorBody(err) == Body("object", Absent, NoInt("absent"), Absent, err)

Http(status, body) == [kind |-> "http", status |-> status, body |-> body]
Transport == [kind |-> "transport", status |-> 0, body |-> NoBody]
\* the wrapped call returned something that is not a requests.Response
Value == [kind |-> "value", status |-> 0, body |-> NoBody]
\* the wrapped call raised an exception that is not a RequestException
OtherError == [kind |-> "error", status |-> 0, body |-> NoBody]

\* attempts the retry wrapper repeats: timeout / connection error, 5xx, 429
TransientOutcomes == { Transport, Http(500, NoBody), Http(429, NoBody) }

TokenFinalOutcomes ==
  { Http(200, b) : b \in OkBodies \cup MalformedBodies }
  \cup { Http(400, ErrorBody("invalid_grant")),
         Http(400, ErrorBody("invalid_client")),
         Http(400, NoBody),
         Http(400, Body("nonobject", Absent, NoInt("absent"), Absent, Absent)),
         Http(401, ErrorBody("invalid_client")) }

----------------------------------------------------------------------------
(* Retry wrapper                                                           *)

\* milliseconds
TokenMaxRetries == 3
TokenInitialBackoff == 1000
ApiMaxRetries == 2
ApiInitialBackoff == 500
DefaultMaxBackoff == 10000

\* what one attempt of the wrapped call leads to inside wrapper():
\* "return" the response, "raise" at once, or fall through to the backoff
\* variant: a client error is backed off and retried like a server error
AttemptVerdict_retries_client_errors(out) ==
  IF out.kind = "value" THEN "return"
  ELSE IF out.kind = "error" THEN "raise"
  ELSE IF out.kind = "transport" THEN "retry"
  ELSE IF out.status < 400 THEN "return"
  ELSE "retry"

AttemptVerdict(out) ==
  IF out.kind = "value" THEN "return"
  ELSE IF out.kind = "error" THEN "raise"
  ELSE IF out.kind = "transport" THEN "retry"
  ELSE IF out.status < 400 THEN "return"
  ELSE IF out.status < 500 /\ out.status # 429 THEN "raise"
  ELSE "retry"

\* current_backoff = min(current_backoff * 2, max_backoff)
\* variant: the doubling is not capped
NextBackoff_uncapped(current_backoff, max_backoff) == current_backoff * 2

NextBackoff(current_backoff, max_backoff) == Min(current_backoff * 2, max_backoff)

\* for attempt in range(max_retries)
\* variant: the loop ends one attempt early
range_one_short(attempt, max_retries) == attempt < max_retries - 1

range(attempt, max_retries) == attempt < max_retries

\* if attempt < max_retries - 1: the backoff sleep after a failed attempt
\* variant: the wrapper sleeps after every failed attempt
SleepsAfter_every_attempt(attempt, max_retries) == TRUE

SleepsAfter(attempt, max_retries) == attempt < max_retries - 1

\* the scripts of attempt outcomes one wrapper call can meet: transient
\* attempts followed by the attempt that ends the loop
RECURSIVE TransientPrefixes(_)
TransientPrefixes(n) ==
  IF n = 0 THEN { <<>> }
  ELSE LET shorter == TransientPrefixes(n - 1)
       IN  shorter \cup { Append(p, t) : p \in { q \in shorter : Len(q) = n - 1 },
                                          t \in TransientOutcomes }

Scripts(finals, max_retries) ==
  { Append(p, f) : p \in TransientPrefixes(max_retries - 1), f \in finals }
  \cup { p \in TransientPrefixes(max_retries) : Len(p) = max_retries }

\* what the wrapped call does when it is invoked for the n-th time: the
\* script's n-th outcome, the last outcome standing for every later one
Answer(script, n) == script[Min(n, Len(script))]

\* wrapper(): the for loop over the attempts of a call that answers with the
\* outcomes of `script`.  Yields what leaves the wrapper, the number of
\* invocations of the wrapped call and the base backoff of every sleep.
RECURSIVE wrapper(_, _, _, _, _, _)
wrapper(script, attempt, current_backoff, sleeps, max_retries, max_backoff) ==
  LET out == Answer(script, attempt + 1)
      verdict == AttemptVerdict(out)
      sleep == SleepsAfter(attempt, max_retries)
      slept == IF sleep THEN Append(sleeps, current_backoff) ELSE sleeps
      backoff == IF sleep THEN NextBackoff(current_backoff, max_backoff)
                 ELSE current_backoff
  IN  IF verdict = "return"
        THEN [kind |-> "return", out |-> out, calls |-> attempt + 1, sleeps |-> sleeps]
      ELSE IF verdict = "raise"
        THEN [kind |-> "raise", out |-> out, calls |-> attempt + 1, sleeps |-> sleeps]
      ELSE IF range(attempt + 1, max_retries)
        THEN wrapper(script, attempt + 1, backoff, slept, max_retries, max_backoff)
      \* raise last_exception
      ELSE [kind |-> "raise", out |-> out, calls |-> attempt + 1, sleeps |-> slept]

----------------------------------------------------------------------------
(* AuthController                                                          *)

\* an AuthController together with the host's settings store:
\*   tok      self.access_token_obj
\*   settings self.settings (the dict the controller works on)
\*   store    what plugin_base.on_save persisted last
\*   saved    plugin_base.on_save was called by the running operation
Auth(tok, settings, store, saved) ==
  [tok |-> tok, settings |-> settings, store |-> store, saved |-> saved]

\* the outcome a wrapper call is summarised to
NoOutcome == [kind |-> "none", status |-> 0, body |-> NoBody]

\* one call through the wrapper of a function decorated with
\* spotify_api_request_handler(max_retries, initial_backoff, max_backoff):
\*   script  what the wrapped function did, invocation by invocation
\*   kind    "return" or "raise" ("none": not called yet), out what was
\*           returned or raised
\*   calls   invocations of the wrapped function
\*   sleeps  current_backoff at each time.sleep, in order (time.sleep adds a
\*           jitter within +-jitter_factor * current_backoff to it)
WrapperCall(parameters, script, kind, out, calls, sleeps) ==
  [parameters |-> parameters, script |-> script, kind |-> kind, out |-> out,
   calls |-> calls, sleeps |-> sleeps]

DecoratorParameters(max_retries, initial_backoff, max_backoff) ==
  [max_retries |-> max_retries, initial_backoff |-> initial_backoff,
   max_backoff |-> max_backoff]

Decorated(parameters) == WrapperCall(parameters, <<>>, "none", NoOutcome, 0, <<>>)

NoWrapperCall == Decorated(DecoratorParameters(0, 0, 0))

\* every way the retried POST to the token endpoint can end when the
\* endpoint's final answer is one of `finals`
WrappedTokenRequests(finals) ==
  { LET w == wrapper(script, 0, TokenInitialBackoff, <<>>,
                     TokenMaxRetries, DefaultMaxBackoff)
    IN  [kind |-> w.kind,
         exc |-> IF w.kind = "return" THEN ""
                 ELSE IF w.out.kind = "transport" THEN "RequestException"
                 ELSE "HTTPError",
         out |-> w.out, calls |-> w.calls, posts |-> w.calls,
         sleeps |-> w.sleeps]
    : script \in Scripts(finals, TokenMaxRetries) }

TokenRequestOutcomes == WrappedTokenRequests(TokenFinalOutcomes)

\* the token endpoint's answers while a SpotifyController operation runs
ApiTokenFinalOutcomes ==
  { Http(200, Body("object", "T2", IntVal(61), Absent, Absent)),
    Http(200, Body("object", "T1", IntVal(62), "R2", Absent)),
    Http(200, Body("nonobject", Absent, NoInt("absent"), Absent, Absent)),
    Http(400, ErrorBody("invalid_grant")) }

ApiTokenRequestOutcomes == WrappedTokenRequests(ApiTokenFinalOutcomes)

\* _request_token_from_spotify under its @spotify_api_request_handler():
\* a ValueError of the credential check leaves the wrapper at once (it is
\* neither an HTTPError nor a RequestException), otherwise the POST is sent
\* once per attempt
\* variant without the credential check: the POST is sent regardless
_request_token_from_spotify_unchecked(settings, outcomes) == outcomes

_request_token_from_spotify(settings, outcomes) ==
  IF ~Truthy(settings.client_id) \/ ~Truthy(settings.client_secret)
    THEN { [kind |-> "raise", exc |-> "ValueError", out |-> NoOutcome,
            calls |-> 1, posts |-> 0, sleeps |-> <<>>] }
    ELSE outcomes

\* _process_token_response(response_data, grant_type)
\* variant that keeps the consumed authorization code in the settings
_process_token_response_keeps_code(a, response_data, grant_type, now) ==
  IF response_data.json = "nonobject"
    THEN [a |-> a, ret |-> Raised("AttributeError")]
  ELSE IF ~Truthy(response_data.access_token) \/ response_data.expires_in.t # "int"
    THEN [a |-> a, ret |-> PyFalse]
  ELSE
    LET s1 == IF Truthy(response_data.refresh_token)
                THEN [a.settings EXCEPT !.client_refresh_token = response_data.refresh_token]
                ELSE a.settings
    IN  [a |-> Auth(Token(response_data.access_token, response_data.expires_in.v, now),
                    s1, s1, TRUE),
         ret |-> PyTrue]

_process_token_response(a, response_data, grant_type, now) ==
  IF response_data.json = "nonobject"
    THEN [a |-> a, ret |-> Raised("AttributeError")]
  ELSE IF ~Truthy(response_data.access_token) \/ response_data.expires_in.t # "int"
    THEN [a |-> a, ret |-> PyFalse]
  ELSE
    LET s1 == IF Truthy(response_data.refresh_token)
                THEN [a.settings EXCEPT !.client_refresh_token = response_data.refresh_token]
                ELSE a.settings
        s2 == IF grant_type = "authorization_code"
                THEN [s1 EXCEPT !.client_authorization = Absent]
                ELSE s1
    IN  [a |-> Auth(Token(response_data.access_token, response_data.expires_in.v, now),
                    s2, s2, TRUE),
         ret |-> PyTrue]

\* result of one grant operation
GrantResult(a, ret, r) ==
  [a |-> a, ret |-> ret, out |-> r.out, calls |-> r.calls, posts |-> r.posts,
   sleeps |-> Len(r.sleeps)]

NoRequest == [out |-> NoOutcome, calls |-> 0, posts |-> 0, sleeps |-> <<>>]

\* exchange_code_for_token(authorization_code)
exchange_code_for_token(a, authorization_code, now, outcomes) ==
  IF ~Truthy(authorization_code) THEN { GrantResult(a, PyFalse, NoRequest) }
  ELSE IF ~Truthy(a.settings.client_id) THEN { GrantResult(a, PyFalse, NoRequest) }
  ELSE
    { IF r.kind = "raise" THEN GrantResult(a, PyFalse, r)
      ELSE IF r.out.body.json = "notjson" THEN GrantResult(a, PyFalse, r)
      ELSE LET p == _process_token_response(a, r.out.body, "authorization_code", now)
           IN  GrantResult(p.a, p.ret, r)
      : r \in _request_token_from_spotify(a.settings, outcomes) }

\* the except branch of refresh_access_token for an error that carries a
\* response: a 400 answer is parsed, and invalid_grant clears the refresh token
\* variant that ignores the error body: invalid_grant keeps the refresh token
RefreshFailure_keeps_refresh_token(a, r) == GrantResult(a, PyFalse, r)

\* variant that gives up the refresh token on every error response
RefreshFailure_clears_on_any_error(a, r) ==
  IF r.exc = "HTTPError"
    THEN LET s == [a.settings EXCEPT !.client_refresh_token = None]
         IN  GrantResult(Auth(a.tok, s, s, TRUE), PyFalse, r)
    ELSE GrantResult(a, PyFalse, r)

RefreshFailure(a, r) ==
  IF r.exc = "HTTPError" /\ r.out.status = 400
    THEN IF r.out.body.json = "notjson" THEN GrantResult(a, Raised("JSONDecodeError"), r)
         ELSE IF r.out.body.json = "nonobject" THEN GrantResult(a, Raised("AttributeError"), r)
         ELSE IF r.out.body.error = "invalid_grant"
           THEN LET s == [a.settings EXCEPT !.client_refresh_token = None]
                IN  GrantResult(Auth(a.tok, s, s, TRUE), PyFalse, r)
         ELSE GrantResult(a, PyFalse, r)
    ELSE GrantResult(a, PyFalse, r)

\* refresh_access_token()
\* variant that drops a rotated refresh token: the stored one stays in use
refresh_access_token_drops_rotation(a, now, outcomes) ==
  IF ~Truthy(a.settings.client_refresh_token) THEN { GrantResult(a, PyFalse, NoRequest) }
  ELSE IF ~Truthy(a.settings.client_id) THEN { GrantResult(a, PyFalse, NoRequest) }
  ELSE
    { IF r.kind = "raise" THEN RefreshFailure(a, r)
      ELSE IF r.out.body.json = "notjson" THEN GrantResult(a, PyFalse, r)
      ELSE LET p == _process_token_response(a, r.out.body, "refresh_token", now)
           IN  GrantResult(Auth(p.a.tok, a.settings, a.store, a.saved), p.ret, r)
      : r \in _request_token_from_spotify(a.settings, outcomes) }

refresh_access_token(a, now, outcomes) ==
  IF ~Truthy(a.settings.client_refresh_token) THEN { GrantResult(a, PyFalse, NoRequest) }
  ELSE IF ~Truthy(a.settings.client_id) THEN { GrantResult(a, PyFalse, NoRequest) }
  ELSE
    { IF r.kind = "raise" THEN RefreshFailure(a, r)
      ELSE IF r.out.body.json = "notjson" THEN GrantResult(a, PyFalse, r)
      ELSE LET p == _process_token_response(a, r.out.body, "refresh_token", now)
           IN  GrantResult(p.a, p.ret, r)
      : r \in _request_token_from_spotify(a.settings, outcomes) }

\* result of one get_valid_token_string call: `refreshed` is "no" when no
\* refresh ran and the refresh's return value otherwise, `delay` the time
\* that passed between the new Token's construction and its re-check
TokenResult(a, ret, refreshed, g, delay) ==
  [a |-> a, ret |-> ret, refreshed |-> refreshed, out |-> g.out, calls |-> g.calls,
   posts |-> g.posts, sleeps |-> g.sleeps, delay |-> delay]

\* get_valid_token_string()
\* variant that refreshes on every call, whether or not a valid Token is held
get_valid_token_string_always_refreshes(a, now, outcomes) ==
  UNION {
    IF g.ret = PyTrue
      THEN { TokenResult(g.a,
                         IF HoldsValidToken(g.a.tok, now + d)
                           THEN g.a.tok.token_string ELSE None,
                         g.ret, g, d)
             : d \in { e \in 0..MaxDelay : now + e <= MaxNow } }
    ELSE IF g.ret = PyFalse THEN { TokenResult(g.a, None, g.ret, g, 0) }
    ELSE { TokenResult(g.a, g.ret, "raised", g, 0) }
    : g \in refresh_access_token(a, now, outcomes) }

get_valid_token_string(a, now, outcomes) ==
  IF HoldsValidToken(a.tok, now)
    THEN { TokenResult(a, a.tok.token_string, "no",
                       GrantResult(a, PyFalse, NoRequest), 0) }
    ELSE UNION {
      IF g.ret = PyTrue
        THEN { TokenResult(g.a,
                           IF HoldsValidToken(g.a.tok, now + d)
                             THEN g.a.tok.token_string ELSE None,
                           g.ret, g, d)
               : d \in { e \in 0..MaxDelay : now + e <= MaxNow } }
      ELSE IF g.ret = PyFalse THEN { TokenResult(g.a, None, g.ret, g, 0) }
      ELSE { TokenResult(g.a, g.ret, "raised", g, 0) }
      : g \in refresh_access_token(a, now, outcomes) }

----------------------------------------------------------------------------
(* Playback state and the authenticated request helper                     *)

\* a playback-state record of GET /me/player; a field that is Absent is
\* missing from the record, `item` and `device` are None for a JSON null and
\* otherwise stand for the record with that id
PlaybackState(timestamp, item, is_playing, shuffle_state, repeat_state, device, volume_percent) ==
  [timestamp |-> timestamp, item |-> item, is_playing |-> is_playing,
   shuffle_state |-> shuffle_state, repeat_state |-> repeat_state,
   device |-> device, volume_percent |-> volume_percent]

\* Optional[Dict] = None
NoState == PlaybackState(0, Absent, Absent, Absent, Absent, Absent, 0)

PlaybackStates ==
  { PlaybackState(1, "i1", PyTrue, PyFalse, "off", "d1", 50),
    PlaybackState(1, "i1", PyTrue, PyTrue, "off", "d1", 50),
    PlaybackState(1, "i1", PyTrue, PyFalse, "off", "d1", 60),
    PlaybackState(1, None, PyFalse, Absent, "off", "d1", 50) }

ApiOut(kind, status, json, state) ==
  [kind |-> kind, status |-> status, json |-> json, state |-> state]

NoApiOut == ApiOut("none", 0, "notjson", NoState)

ApiTransientOutcomes ==
  { ApiOut("transport", 0, "notjson", NoState),
    ApiOut("http", 500, "notjson", NoState),
    ApiOut("http", 429, "notjson", NoState) }

ApiErrorOutcomes ==
  { ApiOut("http", 401, "notjson", NoState),
    ApiOut("http", 403, "notjson", NoState),
    ApiOut("http", 404, "notjson", NoState) }

\* answers to GET /me/player
PlayerOutcomes ==
  { ApiOut("http", 200, "object", st) : st \in PlaybackStates }
  \cup { ApiOut("http", 200, "notjson", NoState), ApiOut("http", 204, "notjson", NoState) }
  \cup ApiErrorOutcomes

\* answers to the PUT / POST control endpoints
ControlOutcomes ==
  { ApiOut("http", 204, "notjson", NoState), ApiOut("http", 200, "notjson", NoState) }
  \cup ApiErrorOutcomes

\* longest time that passes between two attempts of one wrapped API call
MaxSleep == 1

\* what a caller of get_valid_token_string keeps of one call
TokenViews(a, now) ==
  { [a |-> t.a, ret |-> t.ret, delay |-> t.delay]
    : t \in get_valid_token_string(a, now, ApiTokenRequestOutcomes) }

TokenClass(ret) == IF ret = None THEN None ELSE IF IsRaised(ret) THEN "raised" ELSE "token"

\* what one call of the wrapped _make_api_request comes to:
\*   kind "return" with the response `out`, kind "none" (the helper returned
\*   None), or kind "raise" with exception class `exc`;
\*   calls = invocations of _make_api_request by the wrapper,
\*   requests = requests.request calls, sleeps = backoff sleeps,
\*   first_token / last_token = what get_valid_token_string yielded in the
\*   first and in the last invocation
ApiCall(a, now, kind, exc, out, calls, requests, sleeps, first_token, last_token) ==
  [a |-> a, now |-> now, kind |-> kind, exc |-> exc, out |-> out, calls |-> calls,
   requests |-> requests, sleeps |-> sleeps,
   first_token |-> first_token, last_token |-> last_token]

\* the try block around requests.request(...) in _make_api_request: the
\* AuthController after the request was answered with `out`.  requests.request
\* raises no HTTPError for an error status, so the except branch that sets
\* access_token_obj = None is never entered.
\* variant: a 401 or 403 answer enters that branch
requests_request_discards_token(a, out) ==
  IF out.kind = "http" /\ out.status \in {401, 403}
    THEN Auth(NoToken, a.settings, a.store, a.saved)
    ELSE a

requests_request(a, out) == a

\* _make_api_request under @spotify_api_request_handler(max_retries=2,
\* initial_backoff=0.5): invocation number attempt + 1 and what follows it
RECURSIVE _make_api_request(_, _, _, _, _, _, _)
_make_api_request(a, now, finals, attempt, requests, sleeps, first_token) ==
  UNION {
    LET tc == TokenClass(t.ret)
        ft == IF attempt = 0 THEN tc ELSE first_token
        now1 == now + t.delay
        \* an except branch of wrapper() that does not re-raise, and the
        \* backoff sleep and the next invocation that follow it
        Retry(a1, exc, out, reqs) ==
          IF attempt < ApiMaxRetries - 1
            THEN UNION { _make_api_request(a1, now1 + e, finals, attempt + 1, reqs,
                                           sleeps + 1, ft)
                         : e \in { d \in 0..MaxSleep : now1 + d <= MaxNow } }
            ELSE { ApiCall(a1, now1, "raise", exc, out, attempt + 1, reqs, sleeps, ft, tc) }
        \* requests.request answers `out`
        Answered(out) ==
          LET verdict == AttemptVerdict(out)
              a1 == requests_request(t.a, out)
          IN  IF verdict = "return"
                THEN { ApiCall(a1, now1, "return", "", out, attempt + 1, requests + 1,
                               sleeps, ft, tc) }
              ELSE IF verdict = "raise"
                THEN { ApiCall(a1, now1, "raise", "HTTPError", out, attempt + 1,
                               requests + 1, sleeps, ft, tc) }
              ELSE Retry(a1, IF out.kind = "transport" THEN "RequestException"
                             ELSE "HTTPError",
                         out, requests + 1)
    IN  IF t.ret = None
          THEN { ApiCall(t.a, now1, "none", "", NoApiOut, attempt + 1, requests, sleeps, ft, tc) }
        ELSE IF t.ret = Raised("AttributeError")
          THEN { ApiCall(t.a, now1, "raise", "AttributeError", NoApiOut, attempt + 1,
                         requests, sleeps, ft, tc) }
        ELSE IF t.ret = Raised("JSONDecodeError")
          THEN Retry(t.a, "RequestException", NoApiOut, requests)
        ELSE IF attempt < ApiMaxRetries - 1
          \* every transient answer leads to the same retries
          THEN UNION { Answered(out) : out \in finals }
               \cup Answered(CHOOSE out \in ApiTransientOutcomes : TRUE)
          ELSE UNION { Answered(out) : out \in ApiTransientOutcomes \cup finals }
    : t \in TokenViews(a, now) }

StateResult(c, state, raised) == [c |-> c, state |-> state, raised |-> raised]

\* get_playback_state(): the state, NoState for None, or an escaping exception
get_playback_state(a, now) ==
  { IF c.kind = "return"
      THEN IF c.out.status = 200
             THEN IF c.out.json = "object" THEN StateResult(c, c.out.state, "")
                  ELSE StateResult(c, NoState, "")
           ELSE StateResult(c, NoState, "")
    ELSE IF c.kind = "none" THEN StateResult(c, NoState, "")
    ELSE IF c.exc \in {"HTTPError", "RequestException"} THEN StateResult(c, NoState, "")
    ELSE StateResult(c, NoState, c.exc)
    : c \in _make_api_request(a, now, PlayerOutcomes, 0, 0, 0, None) }

ControlResult(c, ret) == [c |-> c, ret |-> ret]

\* _control_playback(method, endpoint)
\* variant that takes "no response" for success
_control_playback_none_is_success(a, now) ==
  { IF c.kind = "return"
      THEN ControlResult(c, IF c.out.status = 204 THEN PyTrue ELSE PyFalse)
    ELSE IF c.kind = "none" THEN ControlResult(c, PyTrue)
    ELSE IF c.exc \in {"HTTPError", "RequestException"} THEN ControlResult(c, PyFalse)
    ELSE ControlResult(c, Raised(c.exc))
    : c \in _make_api_request(a, now, ControlOutcomes, 0, 0, 0, None) }

_control_playback(a, now) ==
  { IF c.kind = "return"
      THEN ControlResult(c, IF c.out.status = 204 THEN PyTrue ELSE PyFalse)
    ELSE IF c.kind = "none" THEN ControlResult(c, PyFalse)
    ELSE IF c.exc \in {"HTTPError", "RequestException"} THEN ControlResult(c, PyFalse)
    ELSE ControlResult(c, Raised(c.exc))
    : c \in _make_api_request(a, now, ControlOutcomes, 0, 0, 0, None) }

\* what `last` keeps of one wrapped API call
CallSummary(c) ==
  [kind |-> c.kind, exc |-> c.exc, status |-> c.out.status, json |-> c.out.json,
   state |-> c.out.state, calls |-> c.calls,
   requests |-> c.requests, sleeps |-> c.sleeps,
   first_token |-> c.first_token, last_token |-> c.last_token]

NoCall ==
  [kind |-> "nocall", exc |-> "", status |-> 0, json |-> "notjson",
   state |-> NoState, calls |-> 0, requests |-> 0,
   sleeps |-> 0, first_token |-> None, last_token |-> None]

\* totals over the wrapped API calls of one operation: the calls, the
\* wrapper's invocations of _make_api_request, the requests sent, the backoff
\* sleeps, and whether every get_valid_token_string call yielded no token
Tally(wrapped, invocations, requests, sleeps, no_token) ==
  [wrapped |-> wrapped, invocations |-> invocations, requests |-> requests,
   sleeps |-> sleeps, no_token |-> no_token]

NoTally == Tally(0, 0, 0, 0, TRUE)

TallyOf(c) ==
  Tally(1, c.calls, c.requests, c.sleeps, c.first_token = None /\ c.last_token = None)

AddTally(t, u) ==
  Tally(t.wrapped + u.wrapped, t.invocations + u.invocations, t.requests + u.requests,
        t.sleeps + u.sleeps, t.no_token /\ u.no_token)

\* result of a SpotifyController operation: the AuthController and the clock
\* it leaves, its return value, the totals of its wrapped API calls, the last
\* of these calls, and the query parameter of its PUT; besides
\*   state             the playback record it returned (get_playback_state)
\*   current           toggle_shuffle's current_shuffle_state
\*   control_requests  the requests its _control_playback call sent
OpResult(a, now, ret, tally, call, sent) ==
  [a |-> a, now |-> now, ret |-> ret, tally |-> tally, call |-> call, sent |-> sent,
   state |-> NoState, current |-> None, control_requests |-> 0]

\* the result of an operation that ends with the _control_playback call r
ControlOpResult(r, tally, sent) ==
  [OpResult(r.c.a, r.c.now, r.ret, tally, CallSummary(r.c), sent)
     EXCEPT !.control_requests = r.c.requests]

\* pause(), play(), next_track(), previous_track()
SimpleControl(a, now) ==
  { ControlOpResult(r, TallyOf(r.c), None) : r \in _control_playback(a, now) }

RepeatStates == {"track", "context", "off"}

\* set_repeat_state(target_repeat_state)
set_repeat_state(a, now, target_repeat_state) ==
  IF target_repeat_state \notin RepeatStates
    THEN { OpResult(a, now, PyFalse, NoTally, NoCall, None) }
    ELSE { ControlOpResult(r, TallyOf(r.c), target_repeat_state)
           : r \in _control_playback(a, now) }

\* set_volume(volume_percent)
\* variant: the value is sent as given
set_volume_unclamped(a, now, volume_percent) ==
  { ControlOpResult(r, TallyOf(r.c), ToString(volume_percent))
    : r \in _control_playback(a, now) }

set_volume(a, now, volume_percent) ==
  LET limited_volume == Min(Max(volume_percent, 0), 100)
  IN  { ControlOpResult(r, TallyOf(r.c), ToString(limited_volume))
        : r \in _control_playback(a, now) }

\* state.get("shuffle_state") of a state that is not None
ShuffleOf(state) == IF state = NoState THEN None ELSE Get(state.shuffle_state)

ShuffleResult(a, now, shuffle, tally, call) ==
  [a |-> a, now |-> now, shuffle |-> shuffle, tally |-> tally, call |-> call]

\* get_shuffle_state(state) over _get_current_or_fresh_state(state): the
\* provided state, else the cached one, else a fresh fetch
get_shuffle_state(a, now, provided_state, cached) ==
  IF provided_state # NoState
    THEN { ShuffleResult(a, now, ShuffleOf(provided_state), NoTally, NoCall) }
  ELSE IF cached # NoState
    THEN { ShuffleResult(a, now, ShuffleOf(cached), NoTally, NoCall) }
  ELSE { ShuffleResult(f.c.a, f.c.now,
                       IF f.raised # "" THEN Raised(f.raised) ELSE ShuffleOf(f.state),
                       TallyOf(f.c), CallSummary(f.c))
         : f \in get_playback_state(a, now) }

\* the getters over _get_current_or_fresh_state(state): what each reads from
\* the state it is given, finds cached or fetches
Getters == {"is_playing", "get_shuffle_state", "get_repeat_state", "get_volume",
            "get_playback_art_url"}

ReadBy(getter, state) ==
  IF state = NoState THEN None
  ELSE IF getter = "is_playing" THEN Get(state.is_playing)
  ELSE IF getter = "get_shuffle_state" THEN Get(state.shuffle_state)
  ELSE IF getter = "get_repeat_state" THEN Get(state.repeat_state)
  ELSE IF getter = "get_volume"
    \* isinstance(device, dict)
    THEN IF state.device \in {Absent, None} THEN None ELSE ToString(state.volume_percent)
  \* item -> album -> images[0] -> url, None when a level is missing
  ELSE IF state.item \in {Absent, None} THEN None ELSE "url of " \o state.item

\* is_playing(state), get_shuffle_state(state), get_repeat_state(state),
\* get_volume(state), get_playback_art_url(state)
getter_call(a, now, getter, provided_state, cached) ==
  IF provided_state # NoState
    THEN { OpResult(a, now, ReadBy(getter, provided_state), NoTally, NoCall, None) }
  ELSE IF cached # NoState
    THEN { OpResult(a, now, ReadBy(getter, cached), NoTally, NoCall, None) }
  ELSE { OpResult(f.c.a, f.c.now,
                  IF f.raised # "" THEN Raised(f.raised) ELSE ReadBy(getter, f.state),
                  TallyOf(f.c), CallSummary(f.c), None)
         : f \in get_playback_state(a, now) }

\* toggle_shuffle()
\* variant: the cache is not consulted, the current state is always fetched
latest_playback_state_of_never_cached(cached) == NoState

\* self.latest_playback_state as toggle_shuffle and the getters under it read it
latest_playback_state_of(cached) == cached

toggle_shuffle(a, now, cache) ==
  LET cached == latest_playback_state_of(cache)
      \* current_shuffle_state = self.get_shuffle_state(self.latest_playback_state)
      first == get_shuffle_state(a, now, cached, cached)
      \* if current_shuffle_state is None: self.get_shuffle_state()
      retried ==
        UNION { { [g EXCEPT !.tally = AddTally(k.tally, g.tally)]
                  : g \in get_shuffle_state(k.a, k.now, NoState, cached) }
                : k \in { [a |-> g.a, now |-> g.now, tally |-> g.tally]
                          : g \in { h \in first : h.shuffle = None } } }
      current == { g \in first : g.shuffle # None } \cup retried
      undetermined == { g \in current : g.shuffle = None \/ IsRaised(g.shuffle) }
      determined == { [a |-> g.a, now |-> g.now, shuffle |-> g.shuffle, tally |-> g.tally]
                      : g \in current \ undetermined }
  IN  { [OpResult(g.a, g.now, g.shuffle, g.tally, g.call, None)
           EXCEPT !.current = g.shuffle] : g \in undetermined }
      \cup UNION {
        LET new_target_state_bool == IF k.shuffle = PyTrue THEN PyFalse ELSE PyTrue
        IN  { [ControlOpResult(r, AddTally(k.tally, TallyOf(r.c)),
                               IF new_target_state_bool = PyTrue THEN "true" ELSE "false")
                 EXCEPT !.ret = IF r.ret = PyTrue THEN new_target_state_bool
                                ELSE IF r.ret = PyFalse THEN None ELSE r.ret,
                        !.current = k.shuffle]
              : r \in _control_playback(k.a, k.now) }
        : k \in determined }

\* new_state.get("item", {}).get("id"): a JSON null for item has no .get
ItemRaises(state) == state.item = None
ItemId(state) == Get(state.item)
DeviceRaises(state) == state.device = None
DeviceId(state) == Get(state.device)
\* new_state.get("device", {}).get("volume_percent"), -1 standing for None
DeviceVolume(state) == IF state.device = Absent THEN -1 ELSE state.volume_percent

\* the change test of _perform_update_and_notify for a fetched state that is
\* not None, its `or` operands evaluated left to right: "changed", "same",
\* or "raise" when an operand raises AttributeError
ChangeTest(new_state, latest) ==
  IF latest = NoState THEN "changed"
  ELSE IF new_state.timestamp # latest.timestamp THEN "changed"
  ELSE IF ItemRaises(new_state) \/ ItemRaises(latest) THEN "raise"
  ELSE IF ItemId(new_state) # ItemId(latest) THEN "changed"
  ELSE IF Get(new_state.is_playing) # Get(latest.is_playing) THEN "changed"
  ELSE IF Get(new_state.shuffle_state) # Get(latest.shuffle_state) THEN "changed"
  ELSE IF Get(new_state.repeat_state) # Get(latest.repeat_state) THEN "changed"
  ELSE IF DeviceRaises(new_state) \/ DeviceRaises(latest) THEN "raise"
  ELSE IF DeviceId(new_state) # DeviceId(latest) THEN "changed"
  ELSE IF DeviceVolume(new_state) # DeviceVolume(latest) THEN "changed"
  ELSE "same"

\* GLib.idle_add(fn, ...): one entry of the main loop's idle queue
IdleCall(fn, code, state) == [fn |-> fn, code |-> code, state |-> state]

\* variant that walks the subscriber list from its end
RECURSIVE Notify_newest_first(_, _)
Notify_newest_first(callbacks, state) ==
  IF callbacks = <<>> THEN <<>>
  ELSE Notify_newest_first(Tail(callbacks), state)
         \o <<IdleCall(Head(callbacks), None, state)>>

\* variant that leaves out the subscriber registered last
RECURSIVE Notify_skips_newest(_, _)
Notify_skips_newest(callbacks, state) ==
  IF Len(callbacks) <= 1 THEN <<>>
  ELSE <<IdleCall(Head(callbacks), None, state)>>
         \o Notify_skips_newest(Tail(callbacks), state)

\* the fan-out of _perform_update_and_notify over list(self.update_callbacks)
RECURSIVE Notify(_, _)
Notify(callbacks, state) ==
  IF callbacks = <<>> THEN <<>>
  ELSE <<IdleCall(Head(callbacks), None, state)>> \o Notify(Tail(callbacks), state)

\* variant that keeps the cached state when the fetch yields None
StateTest_keeps_cache_on_none(new_state, latest) ==
  IF new_state # NoState THEN ChangeTest(new_state, latest) ELSE "same"

\* the change detection of _perform_update_and_notify for the fetched
\* new_state (NoState for None)
StateTest(new_state, latest) ==
  IF new_state # NoState THEN ChangeTest(new_state, latest)
  ELSE IF latest # NoState THEN "changed"
  ELSE "same"

\* a thread running _polling_loop:
\*   pc "test"    at the while condition
\*      "fetch"   in get_playback_state(), the request in flight
\*      "notify"  change stored, before the fan-out
\*      "wait"    blocked in _stop_polling_event.wait(wait_time)
\*      "woken"   the event was set while the thread was blocked in wait
\*      "exited"  the loop has ended, "crashed" an exception ended the thread
\*   new_state is the state the tick in progress fetched, `at` where the
\*   thread crashed ("fetch" or "update")
Loop(pc, new_state, at) == [pc |-> pc, new_state |-> new_state, at |-> at]

NewLoop == Loop("test", NoState, "")

\* self._polling_thread and self._polling_thread.is_alive(), `thread` being
\* 0 for None and otherwise the thread's position in `loops`
is_alive(all_loops, thread) ==
  thread # 0 /\ all_loops[thread].pc \notin {"exited", "crashed"}

\* _stop_polling_event.set(): every thread blocked in wait() is woken
WakeWaiting(all_loops) ==
  [i \in DOMAIN all_loops |->
     IF all_loops[i].pc = "wait" THEN [all_loops[i] EXCEPT !.pc = "woken"]
     ELSE all_loops[i]]

\* the host's main loop as a thread sees it: the idle queue and the record
\* of the callbacks that have run, each with the thread it ran on
MainLoop(queue, executed) == [queue |-> queue, ran |-> executed]

Ran(fn, thread) == [fn |-> fn, thread |-> thread]

\* variant that calls the callback at once, on the calling thread
idle_add_calls_directly(w, call, thread) ==
  [w EXCEPT !.ran = @ \cup {Ran(call.fn, thread)}]

\* GLib.idle_add(callback, state) called on `thread`: the call is queued for
\* the main loop
idle_add(w, call, thread) == [w EXCEPT !.queue = Append(@, call)]

\* the idle_add calls of one fan-out, in the order of `calls`
RECURSIVE ScheduleAll(_, _, _)
ScheduleAll(w, calls, thread) ==
  IF calls = <<>> THEN w
  ELSE ScheduleAll(idle_add(w, Head(calls), thread), Tail(calls), thread)

InList(callbacks, cb) == \E k \in DOMAIN callbacks : callbacks[k] = cb

\* variant without the membership test
register_update_callback_always_appends(callbacks, cb) == Append(callbacks, cb)

\* register_update_callback(callback): the registry afterwards
register_update_callback(callbacks, cb) ==
  IF InList(callbacks, cb) THEN callbacks ELSE Append(callbacks, cb)

\* list.remove(callback) under try / except ValueError: the first occurrence
\* is removed, a list without the callback stays as it is
RECURSIVE unregister_update_callback(_, _)
unregister_update_callback(callbacks, cb) ==
  IF callbacks = <<>> THEN <<>>
  ELSE IF Head(callbacks) = cb THEN Tail(callbacks)
  ELSE <<Head(callbacks)>> \o unregister_update_callback(Tail(callbacks), cb)

\* variant that keeps tracking a thread that outlived the join
join_keeps_live_thread(all_loops, thread) ==
  IF is_alive(all_loops, thread)
    THEN [thread |-> thread, note |-> "did not stop in time"]
    ELSE [thread |-> 0, note |-> "stopped"]

\* stop_polling_updates once join(timeout) has returned: the warning when
\* the thread is still alive, and self._polling_thread = None
join(all_loops, thread) ==
  [thread |-> 0,
   note |-> IF is_alive(all_loops, thread) THEN "did not stop in time" ELSE "stopped"]

----------------------------------------------------------------------------
(* State                                                                   *)

VARIABLES
  access_token_obj,       \* AuthController.access_token_obj
  settings,               \* AuthController.settings
  store,                  \* the settings the host persisted (get_settings reads it)
  now,                    \* datetime.datetime.now(), in seconds
  open_windows,           \* WebAuthWindows presented and not yet closed
  idle_queue,             \* callbacks scheduled with GLib.idle_add, oldest first
  latest_playback_state,  \* SpotifyController.latest_playback_state
  update_callbacks,       \* SpotifyController.update_callbacks
  loops,                  \* the threads started on _polling_loop, oldest first
  polling_thread,         \* SpotifyController._polling_thread (0 for None)
  stop_polling_event,     \* SpotifyController._stop_polling_event is set
  running,                \* the main thread's operation that is under way
  ran,                    \* the subscriber callbacks run so far, with their thread
  wrapper_call,           \* the observed call through spotify_api_request_handler's wrapper
  refreshing,             \* per thread, its refresh_access_token call under way
  honoured,               \* the refresh token the accounts service accepts
  last                    \* the operation that ran last and what it did

\* the threads that call into the AuthController: the poller's and the
\* main loop's, where the key handlers run
Threads == {"SpotifyPollingThread", "main"}

\* a thread inside refresh_access_token:
\*   pc "idle"      not in the call
\*      "read"      current_refresh_token read, the request not yet sent
\*      "answered"  the wrapped request is over, its result not yet handled
\*      "done"      the call has returned `ret`
\*   current_refresh_token is the local of that name, r the result of
\*   _request_token_from_spotify
Refresh(pc, current_refresh_token, r, ret) ==
  [pc |-> pc, current_refresh_token |-> current_refresh_token, r |-> r, ret |-> ret]

NoRefreshing == [t \in Threads |-> Refresh("idle", None, NoRequest, None)]

authVars == <<access_token_obj, settings, store>>
raceVars == <<refreshing, honoured>>
loginVars == <<open_windows, idle_queue>>
pollVars == <<latest_playback_state, update_callbacks, loops, polling_thread,
              stop_polling_event, running, ran>>
vars == <<access_token_obj, settings, store, now, open_windows, idle_queue,
          latest_playback_state, update_callbacks, loops, polling_thread,
          stop_polling_event, running, ran, wrapper_call, refreshing, honoured, last>>

MaxWindows == 1
MaxIdle == 1

AuthorizationCodes == {"c1", "c2"}

Settings(id, secret, code, refresh) ==
  [client_id |-> id, client_secret |-> secret,
   client_authorization |-> code, client_refresh_token |-> refresh]

\* settings files the plugin can be constructed with
InitSettings ==
  { Settings(id, secret, code, refresh) :
      id \in {Absent, "id"}, secret \in {Absent, "secret"},
      code \in {Absent, "c1"}, refresh \in {Absent, None, "R1"} }

\* what an operation reports in `last`:
\*   op, arg, ret   the operation, its argument and its return value
\*   refreshed      "no", or what the refresh_access_token it ran returned
\*   out            the token endpoint's final answer
\*   calls, posts, sleeps  invocations of _request_token_from_spotify,
\*                  POSTs sent and backoff sleeps
\*   delay          time spent between Token construction and re-check
\*   saved          plugin_base.on_save was called
\*   exchanged      the code exchange_code_for_token was called with
\*   tally, call    the wrapped API calls: their totals and the last of them
\*   sent           the query parameter of the PUT
\*   note           what the operation logged about its outcome
\*   state          the playback record get_playback_state returned
\*   current        toggle_shuffle's current_shuffle_state
\*   control_requests  the requests the operation's _control_playback sent
\*   logged         the values its log entries spell out in full
\*   before         what the call of the same operation that came right before
\*                  it sent and returned
Before(sent, ret) == [sent |-> sent, ret |-> ret]

NoBefore == Before(None, None)

Report(op, arg, ret) ==
  [op |-> op, arg |-> arg, ret |-> ret,
   refreshed |-> "no", out |-> NoOutcome, calls |-> 0, posts |-> 0, sleeps |-> 0,
   delay |-> 0, saved |-> FALSE, exchanged |-> None,
   tally |-> NoTally, call |-> NoCall, sent |-> None, note |-> "",
   state |-> NoState, current |-> None, control_requests |-> 0, logged |-> {},
   before |-> NoBefore]

\* e.response.text[:200] in the log entries about a failed token request:
\* the credentials the body of an error response carries
LoggedBody(out) ==
  IF out.kind = "http" /\ out.status >= 400
    THEN { v \in {out.body.access_token, out.body.refresh_token} : Truthy(v) }
    ELSE {}

GrantReport(op, arg, g) ==
  [Report(op, arg, g.ret) EXCEPT !.out = g.out, !.calls = g.calls, !.posts = g.posts,
                                 !.sleeps = g.sleeps, !.saved = g.a.saved,
                                 !.logged = LoggedBody(g.out),
                                 !.exchanged = IF op = "exchange_code_for_token"
                                                 THEN arg ELSE None]

OpReport(op, arg, r) ==
  [Report(op, arg, r.ret) EXCEPT !.saved = r.a.saved, !.tally = r.tally,
                                 !.call = r.call, !.sent = r.sent,
                                 !.state = r.state, !.current = r.current,
                                 !.control_requests = r.control_requests]

\* no operation is running and none awaits its caller
Idle == Report("idle", None, None)

CurrentAuth == Auth(access_token_obj, settings, store, FALSE)

\* the AuthController after an operation
AuthBecomes(a) ==
  /\ access_token_obj' = a.tok
  /\ settings' = a.settings
  /\ store' = a.store

\* the operation the main thread is in the middle of: register_update_callback
\* between the append and the read of latest_playback_state (`seen` is the
\* state that was cached when it began), stop_polling_updates in join()
Running(op, cb, seen) == [op |-> op, cb |-> cb, seen |-> seen]

NoOp == Running("", "", NoState)

\* AuthController.__init__ and SpotifyController.__init__ (which starts the
\* polling thread) on a freshly loaded plugin
Init ==
  /\ access_token_obj = NoToken
  /\ settings \in InitSettings
  /\ store = settings
  /\ now = 0
  /\ open_windows = 0
  /\ idle_queue = <<>>
  /\ latest_playback_state = NoState
  /\ update_callbacks = <<>>
  /\ loops = <<NewLoop>>
  /\ polling_thread = 1
  /\ stop_polling_event = FALSE
  /\ running = NoOp
  /\ ran = {}
  /\ wrapper_call = NoWrapperCall
  /\ refreshing = NoRefreshing
  /\ honoured = "R1"
  /\ last = Idle

\* the caller of an operation has taken its result; the next operation
\* starts from there
Return ==
  /\ last # Idle
  /\ last' = Idle
  /\ UNCHANGED <<raceVars, wrapper_call, authVars, now, loginVars, pollVars>>

\* the clock advances
Tick ==
  /\ last = Idle
  /\ now < MaxNow
  /\ now' = now + 1
  /\ last' = Report("tick", None, None)
  /\ UNCHANGED <<raceVars, wrapper_call, authVars, loginVars, pollVars>>

\* a caller invokes AuthController.exchange_code_for_token(code)
ExchangeCodeForToken ==
  /\ last = Idle
  /\ \E code \in AuthorizationCodes \cup {""} :
     \E g \in exchange_code_for_token(CurrentAuth, code, now, TokenRequestOutcomes) :
       /\ AuthBecomes(g.a)
       /\ last' = GrantReport("exchange_code_for_token", code, g)
       /\ UNCHANGED <<raceVars, wrapper_call, now, loginVars, pollVars>>

\* a caller invokes AuthController.get_valid_token_string()
GetValidTokenString ==
  /\ last = Idle
  /\ \E t \in get_valid_token_string(CurrentAuth, now, TokenRequestOutcomes) :
       /\ AuthBecomes(t.a)
       /\ now' = now + t.delay
       /\ last' = [GrantReport("get_valid_token_string", None, t)
                     EXCEPT !.refreshed = t.refreshed, !.delay = t.delay]
       /\ UNCHANGED <<raceVars, wrapper_call, loginVars, pollVars>>

\* a SpotifyController operation that leaves the polling state alone
Operation(op, arg, results) ==
  /\ last = Idle
  /\ \E r \in results :
       /\ AuthBecomes(r.a)
       /\ now' = r.now
       /\ last' = OpReport(op, arg, r)
       /\ UNCHANGED <<raceVars, wrapper_call, loginVars, pollVars>>

\* a caller invokes SpotifyController.get_playback_state()
GetPlaybackState ==
  Operation("get_playback_state", None,
            { [OpResult(f.c.a, f.c.now,
                        IF f.raised # "" THEN Raised(f.raised)
                        ELSE IF f.state = NoState THEN None ELSE "state",
                        TallyOf(f.c), CallSummary(f.c), None)
                 EXCEPT !.state = f.state]
              : f \in get_playback_state(CurrentAuth, now) })

Play == Operation("play", None, SimpleControl(CurrentAuth, now))
Pause == Operation("pause", None, SimpleControl(CurrentAuth, now))
NextTrack == Operation("next_track", None, SimpleControl(CurrentAuth, now))
PreviousTrack == Operation("previous_track", None, SimpleControl(CurrentAuth, now))

SetRepeatState ==
  \E mode \in RepeatStates \cup {"all"} :
    Operation("set_repeat_state", mode, set_repeat_state(CurrentAuth, now, mode))

VolumeInputs == {-20, -1, 0, 50, 100, 101, 150}

SetVolume ==
  \E percent \in VolumeInputs :
    Operation("set_volume", ToString(percent), set_volume(CurrentAuth, now, percent))

ToggleShuffle ==
  Operation("toggle_shuffle", None, toggle_shuffle(CurrentAuth, now, latest_playback_state))

\* the key is pressed again: toggle_shuffle() is called right after a
\* toggle_shuffle() returned True or False, before anything else runs
ToggleShuffleAgain ==
  /\ last.op = "toggle_shuffle"
  /\ last.before = NoBefore
  /\ last.ret \in {PyTrue, PyFalse}
  /\ \E r \in toggle_shuffle(CurrentAuth, now, latest_playback_state) :
       /\ AuthBecomes(r.a)
       /\ now' = r.now
       /\ last' = [OpReport("toggle_shuffle", None, r)
                     EXCEPT !.before = Before(last.sent, last.ret)]
       /\ UNCHANGED <<raceVars, wrapper_call, loginVars, pollVars>>

\* the states an action hands to a getter: none, or the one its on_update
\* callback received
ProvidedStates == {NoState, PlaybackState(1, "i1", PyTrue, PyTrue, "off", "d1", 50)}

\* an action calls one of the getters
Getter ==
  \E getter \in Getters, provided_state \in ProvidedStates :
    Operation(getter, IF provided_state = NoState THEN None ELSE "state",
              getter_call(CurrentAuth, now, getter, provided_state, latest_playback_state))

\* capacity of the main loop's idle queue
MaxPending == 2

\* the subscribers (ShuffleAction.on_update, RepeatAction.on_update)
Callbacks == {"cb1", "cb2"}

\* one tick of _polling_loop: _perform_update_and_notify().  An exception
\* that leaves the tick ends the polling thread.
PollTick ==
  /\ last = Idle
  /\ is_alive(loops, polling_thread)
  /\ loops[polling_thread].pc = "test"
  /\ ~stop_polling_event
  /\ Len(idle_queue) + Len(update_callbacks) <= MaxPending
  /\ \E f \in get_playback_state(CurrentAuth, now) :
       LET test == StateTest(f.state, latest_playback_state)
           raised == f.raised # "" \/ test = "raise"
           changed == ~raised /\ test = "changed"
       IN  /\ AuthBecomes(f.c.a)
           /\ now' = f.c.now
           /\ latest_playback_state' = IF changed THEN f.state ELSE latest_playback_state
           /\ idle_queue' = IF changed THEN idle_queue \o Notify(update_callbacks, f.state)
                            ELSE idle_queue
           /\ loops' = IF raised
                          THEN [loops EXCEPT ![polling_thread] =
                                  Loop("crashed", NoState,
                                       IF f.raised # "" THEN "fetch" ELSE "update")]
                          ELSE loops
           /\ last' = [Report("poll", None,
                              IF raised THEN Raised("AttributeError")
                              ELSE IF changed THEN "changed" ELSE "same")
                         EXCEPT !.saved = f.c.a.saved, !.tally = TallyOf(f.c),
                                !.call = CallSummary(f.c)]
           /\ UNCHANGED <<raceVars, wrapper_call, open_windows, update_callbacks, polling_thread,
                           stop_polling_event, running, ran>>

\* navigation requests of the login window's webview: `target` says whether
\* the URI starts with https://stream-controller/callback, `code` is what
\* follows "https://stream-controller/callback?code=" (Absent when the URI
\* does not contain that text)
Uri(target, code) == [target |-> target, code |-> code]

NavigationUris ==
  { Uri(FALSE, Absent), Uri(TRUE, Absent), Uri(TRUE, "") }
  \cup { Uri(TRUE, code) : code \in AuthorizationCodes }

is_redirect_target(uri) == uri.target

\* on_login -> AuthController.initiate_login_flow()
InitiateLoginFlow ==
  /\ last = Idle
  /\ open_windows < MaxWindows
  /\ open_windows' = IF Truthy(settings.client_id) THEN open_windows + 1 ELSE open_windows
  /\ last' = Report("initiate_login_flow", None, None)
  /\ UNCHANGED <<raceVars, wrapper_call, authVars, now, idle_queue, pollVars>>

\* WebAuthWindow.close_and_extract, `if code and self.callback:
\* GLib.idle_add(self.callback, code)`: the main loop's queue afterwards
\* variant: the code is extracted but the callback is not scheduled
close_and_extract_drops_code(queue, code) == queue

close_and_extract(queue, code) ==
  IF Truthy(code) THEN Append(queue, IdleCall("handle_auth_code", code, NoState))
  ELSE queue

\* WebAuthWindow._on_decide_policy for a navigation action, with
\* close_and_extract when the redirect target is reached.  Every navigation
\* is logged with its URI (log.info, lines 44, 50, 58), the extracted code
\* once more on its own (line 60).
OnDecidePolicy ==
  /\ last = Idle
  /\ open_windows > 0
  /\ Len(idle_queue) < MaxIdle
  /\ \E uri \in NavigationUris :
       LET logged == { v \in {uri.code} : Truthy(v) }
       IN  IF ~is_redirect_target(uri)
             THEN /\ last' = [Report("_on_decide_policy", None, PyFalse)
                                EXCEPT !.logged = logged]
                  /\ UNCHANGED <<open_windows, idle_queue>>
           ELSE IF uri.code = Absent
             \* split(...)[1] of a list of one element
             THEN /\ last' = [Report("_on_decide_policy", None, Raised("IndexError"))
                                EXCEPT !.logged = logged]
                  /\ UNCHANGED <<open_windows, idle_queue>>
           ELSE /\ open_windows' = open_windows - 1
                /\ idle_queue' = close_and_extract(idle_queue, uri.code)
                /\ last' = [Report("_on_decide_policy", uri.code, PyTrue)
                              EXCEPT !.logged = logged]
  /\ UNCHANGED <<raceVars, wrapper_call, authVars, now, pollVars>>

\* the main loop runs the idle callback plugin_base.handle_auth_code(code)
HandleAuthCode ==
  /\ last = Idle
  /\ idle_queue # <<>>
  /\ Head(idle_queue).fn = "handle_auth_code"
  /\ LET code == Head(idle_queue).code
         \* settings = self.get_settings(); settings["client_authorization"] = code
         s1 == [store EXCEPT !.client_authorization = code]
     IN  IF s1.client_refresh_token = Absent
           \* del settings["client_refresh_token"]
           THEN /\ store' = store
                /\ last' = Report("handle_auth_code", code, Raised("KeyError"))
           ELSE /\ store' = [s1 EXCEPT !.client_refresh_token = Absent]
                /\ last' = [Report("handle_auth_code", code, None) EXCEPT !.saved = TRUE]
  /\ idle_queue' = Tail(idle_queue)
  /\ UNCHANGED <<raceVars, wrapper_call, access_token_obj, settings, now, open_windows, pollVars>>

\* the login flow and the token lifecycle
Next ==
  \/ Return
  \/ Tick
  \/ InitiateLoginFlow
  \/ OnDecidePolicy
  \/ HandleAuthCode
  \/ ExchangeCodeForToken
  \/ GetValidTokenString

Spec == Init /\ [][Next]_vars

\* settings of a plugin whose login has been completed or revoked
ApiInitSettings ==
  { Settings("id", "secret", Absent, refresh) : refresh \in {None, "R1"} }

InitApi == Init /\ settings \in ApiInitSettings

\* the playback surface: SpotifyController's operations and the poller
NextApi ==
  \/ Return
  \/ Tick
  \/ GetPlaybackState
  \/ Play
  \/ Pause
  \/ NextTrack
  \/ PreviousTrack
  \/ SetRepeatState
  \/ SetVolume
  \/ ToggleShuffle
  \/ Getter
  \/ PollTick

SpecApi == InitApi /\ [][NextApi]_vars

\* an expires_in whose Token stays valid throughout the modelled time
LongExpiresIn == buffer_seconds + MaxNow + 1

\* the shuffle key pressed once or twice between polling ticks
NextToggle ==
  \/ Return
  \/ PollTick
  \/ ToggleShuffle
  \/ ToggleShuffleAgain

\* a valid Token is held, nothing is cached yet
InitToggle ==
  /\ access_token_obj = Token("T1", LongExpiresIn, 0)
  /\ settings = Settings("id", "secret", Absent, "R1")
  /\ store = settings
  /\ now = 0
  /\ open_windows = 0
  /\ idle_queue = <<>>
  /\ latest_playback_state = NoState
  /\ update_callbacks = <<>>
  /\ loops = <<NewLoop>>
  /\ polling_thread = 1
  /\ stop_polling_event = FALSE
  /\ running = NoOp
  /\ ran = {}
  /\ wrapper_call = NoWrapperCall
  /\ refreshing = NoRefreshing
  /\ honoured = "R1"
  /\ last = Idle

SpecToggle == InitToggle /\ [][NextToggle]_vars

----------------------------------------------------------------------------
(* The polling thread and the subscriber registry, step by step            *)

\* threads ever started on _polling_loop
MaxLoops == 2
Note(op, arg, note) == [Report(op, arg, None) EXCEPT !.note = note]

LoopBecomes(i, loop) == loops' = [loops EXCEPT ![i] = loop]

\* while not self._stop_polling_event.is_set()
LoopTest(i) ==
  /\ i \in DOMAIN loops /\ loops[i].pc = "test"
  /\ LoopBecomes(i, IF stop_polling_event THEN Loop("exited", NoState, "")
                    ELSE Loop("fetch", NoState, ""))
  /\ UNCHANGED <<raceVars, wrapper_call, authVars, now, loginVars, latest_playback_state, update_callbacks,
                 polling_thread, stop_polling_event, running, ran, last>>

\* after the tick: wait_time > 0 blocks the thread in wait(), otherwise the
\* loop goes back to its while condition
AfterTick == {"wait", "test"}

\* new_state = self.get_playback_state(), the change detection and the store
\* of _perform_update_and_notify; an exception ends the thread
LoopFetch(i) ==
  /\ i \in DOMAIN loops /\ loops[i].pc = "fetch"
  /\ \E f \in { [a |-> g.c.a, now |-> g.c.now, state |-> g.state, raised |-> g.raised]
                 : g \in get_playback_state(CurrentAuth, now) } :
       /\ AuthBecomes(f.a)
       /\ now' = f.now
       /\ LET test == StateTest(f.state, latest_playback_state)
          IN  IF f.raised # ""
                THEN /\ LoopBecomes(i, Loop("crashed", NoState, "fetch"))
                     /\ UNCHANGED latest_playback_state
              ELSE IF test = "raise"
                THEN /\ LoopBecomes(i, Loop("crashed", f.state, "update"))
                     /\ UNCHANGED latest_playback_state
              ELSE IF test = "changed"
                THEN /\ LoopBecomes(i, Loop("notify", f.state, ""))
                     /\ latest_playback_state' = f.state
              ELSE /\ \E pc \in AfterTick : LoopBecomes(i, Loop(pc, f.state, ""))
                   /\ UNCHANGED latest_playback_state
  /\ UNCHANGED <<raceVars, wrapper_call, loginVars, update_callbacks, polling_thread, stop_polling_event,
                 running, ran, last>>

\* room the idle queue needs for a fan-out, one place being kept for a
\* registration under way
Pending ==
  Len(idle_queue) + Len(update_callbacks) + (IF running.op = "register_update_callback"
                                                THEN 1 ELSE 0)

\* if changed: for callback in list(self.update_callbacks): GLib.idle_add(...)
LoopNotify(i) ==
  /\ i \in DOMAIN loops /\ loops[i].pc = "notify"
  /\ Pending <= MaxPending
  /\ LET w == ScheduleAll(MainLoop(idle_queue, ran),
                          Notify(update_callbacks, latest_playback_state),
                          "SpotifyPollingThread")
     IN  /\ idle_queue' = w.queue
         /\ ran' = w.ran
  /\ \E pc \in AfterTick : LoopBecomes(i, Loop(pc, NoState, ""))
  /\ UNCHANGED <<raceVars, wrapper_call, authVars, now, open_windows, latest_playback_state, update_callbacks,
                 polling_thread, stop_polling_event, running, last>>

\* self._stop_polling_event.wait(wait_time) returns: True when the event is
\* set (break), False at the timeout
LoopWait(i) ==
  /\ i \in DOMAIN loops /\ loops[i].pc \in {"wait", "woken"}
  /\ LoopBecomes(i, IF stop_polling_event \/ loops[i].pc = "woken"
                      THEN Loop("exited", NoState, "")
                      ELSE Loop("test", NoState, ""))
  /\ UNCHANGED <<raceVars, wrapper_call, authVars, now, loginVars, latest_playback_state, update_callbacks,
                 polling_thread, stop_polling_event, running, ran, last>>

LoopStep(i) ==
  LoopTest(i) \/ LoopFetch(i) \/ LoopNotify(i) \/ LoopWait(i)

\* start_polling_updates()
StartPollingUpdates ==
  /\ running = NoOp
  /\ IF is_alive(loops, polling_thread)
       THEN /\ last' = Note("start_polling_updates", None, "already running")
            /\ UNCHANGED <<loops, polling_thread, stop_polling_event>>
       ELSE /\ Len(loops) < MaxLoops
            /\ stop_polling_event' = FALSE
            /\ loops' = Append(loops, NewLoop)
            /\ polling_thread' = Len(loops) + 1
            /\ last' = Note("start_polling_updates", None, "started")
  /\ UNCHANGED <<raceVars, wrapper_call, authVars, now, loginVars, latest_playback_state, update_callbacks,
                 running, ran>>

\* stop_polling_updates() up to the join
StopPollingUpdates ==
  /\ running = NoOp
  /\ IF ~is_alive(loops, polling_thread)
       THEN /\ last' = Note("stop_polling_updates", None, "not running")
            /\ UNCHANGED <<loops, stop_polling_event, running>>
       ELSE /\ stop_polling_event' = TRUE
            /\ loops' = WakeWaiting(loops)
            /\ running' = Running("stop_polling_updates", "", NoState)
            /\ last' = Note("stop_polling_updates", None, "stopping")
  /\ UNCHANGED <<raceVars, wrapper_call, authVars, now, loginVars, latest_playback_state, update_callbacks,
                 polling_thread, ran>>

\* join(timeout=interval + 2.0) returns, the thread having ended or not
StopJoinReturns ==
  /\ running.op = "stop_polling_updates"
  /\ LET j == join(loops, polling_thread)
     IN  /\ polling_thread' = j.thread
         /\ last' = Note("stop_polling_updates", None, j.note)
  /\ running' = NoOp
  /\ UNCHANGED <<raceVars, wrapper_call, authVars, now, loginVars, latest_playback_state, update_callbacks,
                 loops, stop_polling_event, ran>>

\* register_update_callback(callback) up to the append
RegisterUpdateCallback ==
  /\ running = NoOp
  /\ Len(idle_queue) < MaxPending
  /\ \E cb \in Callbacks :
       /\ update_callbacks' = register_update_callback(update_callbacks, cb)
       /\ IF InList(update_callbacks, cb)
            THEN /\ last' = Note("register_update_callback", cb, "already registered")
                 /\ UNCHANGED running
            ELSE /\ running' = Running("register_update_callback", cb,
                                       latest_playback_state)
                 /\ last' = Note("register_update_callback", cb, "registering")
  /\ UNCHANGED <<raceVars, wrapper_call, authVars, now, loginVars, latest_playback_state, loops,
                 polling_thread, stop_polling_event, ran>>

\* if self.latest_playback_state is not None: GLib.idle_add(callback, state)
RegisterDelivers ==
  /\ running.op = "register_update_callback"
  /\ LET w == IF latest_playback_state # NoState
                THEN idle_add(MainLoop(idle_queue, ran),
                              IdleCall(running.cb, None, latest_playback_state), "main")
                ELSE MainLoop(idle_queue, ran)
     IN  /\ idle_queue' = w.queue
         /\ ran' = w.ran
  /\ last' = Note("register_update_callback", running.cb, "registered")
  /\ running' = NoOp
  /\ UNCHANGED <<raceVars, wrapper_call, authVars, now, open_windows, latest_playback_state, update_callbacks,
                 loops, polling_thread, stop_polling_event>>

\* unregister_update_callback(callback)
UnregisterUpdateCallback ==
  /\ running = NoOp
  /\ \E cb \in Callbacks :
       /\ update_callbacks' = unregister_update_callback(update_callbacks, cb)
       /\ last' = Note("unregister_update_callback", cb,
                       IF InList(update_callbacks, cb) THEN "unregistered"
                       ELSE "not found")
  /\ UNCHANGED <<raceVars, wrapper_call, authVars, now, loginVars, latest_playback_state, loops,
                 polling_thread, stop_polling_event, running, ran>>

\* the main loop runs the subscriber callback at the head of the idle queue
RunIdle ==
  /\ running = NoOp
  /\ idle_queue # <<>>
  /\ Head(idle_queue).fn \in Callbacks
  /\ ran' = ran \cup {Ran(Head(idle_queue).fn, "main")}
  /\ idle_queue' = Tail(idle_queue)
  /\ last' = Note("callback", Head(idle_queue).fn, "main")
  /\ UNCHANGED <<raceVars, wrapper_call, authVars, now, open_windows, latest_playback_state, update_callbacks,
                 loops, polling_thread, stop_polling_event, running>>

\* a plugin that logged in a while ago and holds an access token of the
\* usual lifetime; the clock stands at the end of the modelled time, so the
\* poller's requests take no modelled time
InitPoll ==
  /\ access_token_obj = Token("T1", LongExpiresIn, 0)
  /\ settings = Settings("id", "secret", Absent, "R1")
  /\ store = settings
  /\ now = MaxNow
  /\ open_windows = 0
  /\ idle_queue = <<>>
  /\ latest_playback_state = NoState
  /\ update_callbacks = <<>>
  /\ loops = <<NewLoop>>
  /\ polling_thread = 1
  /\ stop_polling_event = FALSE
  /\ running = NoOp
  /\ ran = {}
  /\ wrapper_call = NoWrapperCall
  /\ refreshing = NoRefreshing
  /\ honoured = "R1"
  /\ last = Idle

\* the poller and the calls that start and stop it
NextPoll ==
  \/ \E i \in 1..MaxLoops : LoopTest(i)
  \/ \E i \in 1..MaxLoops : LoopFetch(i)
  \/ \E i \in 1..MaxLoops : LoopNotify(i)
  \/ \E i \in 1..MaxLoops : LoopWait(i)
  \/ StartPollingUpdates
  \/ StopPollingUpdates
  \/ StopJoinReturns

SpecPoll == InitPoll /\ [][NextPoll]_vars

\* every polling thread keeps running (its requests time out) and
\* join(timeout) returns
FairSpecPoll ==
  /\ SpecPoll
  /\ \A i \in 1..MaxLoops : WF_vars(LoopStep(i))
  /\ WF_vars(StopJoinReturns)

\* the poller, the subscriber registry and the main loop
NextSubscribers ==
  \/ \E i \in 1..MaxLoops : LoopTest(i)
  \/ \E i \in 1..MaxLoops : LoopFetch(i)
  \/ \E i \in 1..MaxLoops : LoopNotify(i)
  \/ \E i \in 1..MaxLoops : LoopWait(i)
  \/ RegisterUpdateCallback
  \/ RegisterDelivers
  \/ UnregisterUpdateCallback
  \/ RunIdle

SpecSubscribers == InitPoll /\ [][NextSubscribers]_vars

\* the poller ticking with both subscribers registered, the main loop
\* running their deliveries
InitOutage ==
  /\ access_token_obj = NoToken
  /\ settings \in ApiInitSettings
  /\ store = settings
  /\ now = 0
  /\ open_windows = 0
  /\ idle_queue = <<>>
  /\ latest_playback_state = NoState
  /\ update_callbacks = <<"cb1", "cb2">>
  /\ loops = <<NewLoop>>
  /\ polling_thread = 1
  /\ stop_polling_event = FALSE
  /\ running = NoOp
  /\ ran = {}
  /\ wrapper_call = NoWrapperCall
  /\ refreshing = NoRefreshing
  /\ honoured = "R1"
  /\ last = Idle

NextOutage ==
  \/ Return
  \/ Tick
  \/ PollTick
  \/ RunIdle

SpecOutage == InitOutage /\ [][NextOutage]_vars

----------------------------------------------------------------------------
(* refresh_access_token on two threads                                     *)

\* the refresh token the accounts service issues when it rotates `token`
Rotated(token) == IF token = "R1" THEN "R2" ELSE "R3"

\* the accounts service's final answers to a refresh grant sent with
\* `sent` while it accepts `accepted`: a new access token, with or without
\* a rotated refresh token, or invalid_grant for a token it has revoked
AccountsAnswers(sent, accepted) ==
  IF sent = accepted
    THEN { Http(200, Body("object", "T2", IntVal(ei), rt, Absent)) :
             ei \in {60, 62}, rt \in {Absent, Rotated(accepted)} }
    ELSE { Http(400, ErrorBody("invalid_grant")) }

\* get_valid_token_string finds no valid Token and enters
\* refresh_access_token, which reads the stored refresh token and the client id
RefreshStart(t) ==
  /\ refreshing[t].pc = "idle"
  /\ ~(access_token_obj # NoToken /\ is_valid(access_token_obj, now))
  /\ LET current_refresh_token == settings.client_refresh_token
     IN  refreshing' =
           [refreshing EXCEPT ![t] =
              IF ~Truthy(current_refresh_token) \/ ~Truthy(settings.client_id)
                THEN Refresh("done", current_refresh_token, NoRequest, PyFalse)
                ELSE Refresh("read", current_refresh_token, NoRequest, None)]
  /\ UNCHANGED <<honoured, wrapper_call, authVars, now, loginVars, pollVars, last>>

\* response = self._request_token_from_spotify(data): the service answers
\* the grant, and a grant it accepts may rotate the refresh token
RefreshRequest(t) ==
  /\ refreshing[t].pc = "read"
  /\ \E r \in _request_token_from_spotify(
                 settings,
                 WrappedTokenRequests(
                   AccountsAnswers(refreshing[t].current_refresh_token, honoured))) :
       /\ refreshing' = [refreshing EXCEPT ![t] =
                           Refresh("answered", @.current_refresh_token, r, None)]
       /\ honoured' = IF r.kind = "return" /\ Truthy(r.out.body.refresh_token)
                         THEN r.out.body.refresh_token
                         ELSE honoured
  /\ UNCHANGED <<wrapper_call, authVars, now, loginVars, pollVars, last>>

\* the rest of refresh_access_token: _process_token_response on the answer,
\* or the except branches
RefreshProcess(t) ==
  /\ refreshing[t].pc = "answered"
  /\ LET r == refreshing[t].r
         g == IF r.kind = "raise" THEN RefreshFailure(CurrentAuth, r)
              ELSE IF r.out.body.json = "notjson" THEN GrantResult(CurrentAuth, PyFalse, r)
              ELSE LET p == _process_token_response(CurrentAuth, r.out.body,
                                                    "refresh_token", now)
                   IN  GrantResult(p.a, p.ret, r)
     IN  /\ AuthBecomes(g.a)
         /\ refreshing' = [refreshing EXCEPT ![t] =
                             Refresh("done", @.current_refresh_token, r, g.ret)]
  /\ UNCHANGED <<honoured, wrapper_call, now, loginVars, pollVars, last>>

NextRace ==
  \/ \E t \in Threads : RefreshStart(t)
  \/ \E t \in Threads : RefreshRequest(t)
  \/ \E t \in Threads : RefreshProcess(t)

\* both threads find the held Token expired
InitRace ==
  /\ access_token_obj = Token("T1", buffer_seconds + 1, 0)
  /\ settings = Settings("id", "secret", Absent, "R1")
  /\ store = settings
  /\ now = 1
  /\ open_windows = 0
  /\ idle_queue = <<>>
  /\ latest_playback_state = NoState
  /\ update_callbacks = <<>>
  /\ loops = <<NewLoop>>
  /\ polling_thread = 1
  /\ stop_polling_event = FALSE
  /\ running = NoOp
  /\ ran = {}
  /\ wrapper_call = NoWrapperCall
  /\ refreshing = NoRefreshing
  /\ honoured = "R1"
  /\ last = Idle

SpecRace == InitRace /\ [][NextRace]_vars

\* the poller stopped and started again while subscribers register
NextRestart ==
  \/ \E i \in 1..MaxLoops : LoopTest(i)
  \/ \E i \in 1..MaxLoops : LoopFetch(i)
  \/ \E i \in 1..MaxLoops : LoopNotify(i)
  \/ \E i \in 1..MaxLoops : LoopWait(i)
  \/ StartPollingUpdates
  \/ StopPollingUpdates
  \/ StopJoinReturns
  \/ RegisterUpdateCallback
  \/ RegisterDelivers

SpecRestart == InitPoll /\ [][NextRestart]_vars

----------------------------------------------------------------------------
(* The retry wrapper on its own                                            *)

\* largest max_retries a function is decorated with
MaxAttempts == 4

\* backoffs in milliseconds: the two decorations of the program and values
\* that reach the cap
InitialBackoffs == {1, 3, ApiInitialBackoff, TokenInitialBackoff}
MaxBackoffs == {2, 4, DefaultMaxBackoff}

Decorations ==
  { DecoratorParameters(m, i, b)
    : m \in 1..MaxAttempts, i \in InitialBackoffs, b \in MaxBackoffs }

\* what the wrapped function does in the invocation that ends the loop
WrappedFinalOutcomes ==
  { Http(200, NoBody), Http(204, NoBody), Http(400, NoBody), Http(401, NoBody),
    Http(404, NoBody), Http(499, NoBody), Value, OtherError }

\* a function is decorated; nothing has called it yet
InitRetry ==
  /\ access_token_obj = NoToken
  /\ settings = Settings("id", "secret", Absent, None)
  /\ store = settings
  /\ now = 0
  /\ open_windows = 0
  /\ idle_queue = <<>>
  /\ latest_playback_state = NoState
  /\ update_callbacks = <<>>
  /\ loops = <<NewLoop>>
  /\ polling_thread = 1
  /\ stop_polling_event = FALSE
  /\ running = NoOp
  /\ ran = {}
  /\ wrapper_call \in { Decorated(q) : q \in Decorations }
  /\ refreshing = NoRefreshing
  /\ honoured = "R1"
  /\ last = Idle

\* a caller invokes the decorated function: wrapper(*args, **kwargs).  The
\* wrapper keeps nothing from one call to the next, so one call of each
\* decorated function is observed.
CallWrapped ==
  LET q == wrapper_call.parameters
  IN  /\ wrapper_call.kind = "none"
      /\ \E script \in Scripts(WrappedFinalOutcomes, q.max_retries) :
           LET w == wrapper(script, 0, q.initial_backoff, <<>>, q.max_retries, q.max_backoff)
           IN  wrapper_call' = WrapperCall(q, script, w.kind, w.out, w.calls, w.sleeps)
      /\ UNCHANGED <<raceVars, authVars, now, loginVars, pollVars, last>>

NextRetry == CallWrapped

SpecRetry == InitRetry /\ [][NextRetry]_vars

----------------------------------------------------------------------------
(* The Token on its own                                                    *)

\* the expires_in values a Token is constructed with
TokenLifetimes == {0, 59, 60, 61, 62, 63}

\* what is known of the Token in access_token_obj: the expires_in it was
\* constructed with, the time of its construction and what its is_valid
\* property answered when it was read last (None: not read since)
TokenReport(expires_in, constructed_at, valid) ==
  [op |-> "Token", expires_in |-> expires_in, constructed_at |-> constructed_at,
   is_valid |-> valid]

\* Token(token_string, expires_in)
NewToken ==
  /\ \E expires_in \in TokenLifetimes :
       /\ access_token_obj' = Token("T1", expires_in, now)
       /\ last' = TokenReport(expires_in, now, None)
  /\ UNCHANGED <<raceVars, wrapper_call, settings, store, now, loginVars, pollVars>>

\* the clock advances
ClockAdvances ==
  /\ now < MaxNow
  /\ now' = now + 1
  /\ last' = IF last.op = "Token" THEN [last EXCEPT !.is_valid = None] ELSE last
  /\ UNCHANGED <<raceVars, wrapper_call, authVars, loginVars, pollVars>>

\* a caller reads access_token_obj.is_valid
ReadIsValid ==
  /\ last.op = "Token"
  /\ last' = [last EXCEPT !.is_valid = IF is_valid(access_token_obj, now)
                                          THEN PyTrue ELSE PyFalse]
  /\ UNCHANGED <<raceVars, wrapper_call, authVars, now, loginVars, pollVars>>

NextToken ==
  \/ NewToken
  \/ ClockAdvances
  \/ ReadIsValid

\* a plugin that holds no Token yet
InitToken == Init /\ settings = Settings("id", "secret", Absent, None)

SpecToken == InitToken /\ [][NextToken]_vars

----------------------------------------------------------------------------
(* Properties                                                              *)

GVTS == "get_valid_token_string"
EXCHANGE == "exchange_code_for_token"

\* the token endpoint's final answer is a grant _process_token_response accepts
GrantAnswer(out) ==
  /\ out.kind = "http" /\ out.status = 200
  /\ out.body.json = "object"
  /\ Truthy(out.body.access_token)
  /\ out.body.expires_in.t = "int"

\* C1: each time the browser delivers a code to handle_auth_code,
\* exchange_code_for_token is called with that code.
C1_ExchangeFollowsCallback ==
  last.op = "handle_auth_code" => last.exchanged = last.arg

\* C2: whenever get_valid_token_string finds no valid Token and its refresh
\* reports success, it returns the newly issued token string, for every
\* expires_in.
C2_ReturnsNewTokenAlways ==
  (last.op = GVTS /\ last.refreshed = PyTrue) => last.ret = last.out.body.access_token

\* C2 (amended): after a successful refresh get_valid_token_string returns the
\* new token string exactly when the new Token is still valid at the re-check,
\* i.e. less than max(0, expires_in - 60) seconds passed since the Token was
\* constructed; otherwise (always for expires_in <= 60) it returns None.
C2_ReturnsNewTokenWhileValid ==
  (last.op = GVTS /\ last.refreshed = PyTrue) =>
    /\ GrantAnswer(last.out)
    /\ access_token_obj.token_string = last.out.body.access_token
    /\ last.ret = IF last.delay < Max(0, last.out.body.expires_in.v - 60)
                    THEN last.out.body.access_token
                    ELSE None

C2_Witness ==
  /\ last.op = GVTS /\ last.refreshed = PyTrue
  /\ last.out.body.expires_in.v = 61 /\ last.delay = 1
  /\ last.ret = None

\* C3: get_valid_token_string called while a still-valid Token is held returns
\* that Token's string, sends nothing to the token endpoint and leaves the
\* Token and the settings unchanged.
C3_ValidTokenIsReturnedUntouched ==
  [][ (last'.op = GVTS /\ HoldsValidToken(access_token_obj, now)) =>
        /\ last'.ret = access_token_obj.token_string
        /\ last'.calls = 0 /\ last'.posts = 0 /\ last'.sleeps = 0
        /\ ~last'.saved
        /\ UNCHANGED <<access_token_obj, settings, store>> ]_vars

C3_Witness ==
  /\ last.op = GVTS /\ last.refreshed = "no"
  /\ HoldsValidToken(access_token_obj, now)
  /\ last.ret = access_token_obj.token_string

\* C4: when a playback API call is answered with HTTP 401 or 403, the cached
\* Token is discarded.
C4_AuthErrorDiscardsToken ==
  (last.call.kind = "raise" /\ last.call.status \in {401, 403}) => access_token_obj = NoToken

\* the answer C5 is about: a grant that carries a refresh token
GrantWithRefreshToken(out) == GrantAnswer(out) /\ Truthy(out.body.refresh_token)

\* what C5 promises besides the validity of the stored Token
ExchangeCompleted ==
  /\ access_token_obj.token_string = last.out.body.access_token
  /\ settings.client_refresh_token = last.out.body.refresh_token
  /\ settings.client_authorization = Absent
  /\ last.saved /\ store = settings
  /\ last.ret = PyTrue

\* C5: exchange_code_for_token that receives a 200 answer with access_token,
\* expires_in and refresh_token ends with a valid Token stored, the new refresh
\* token in client_refresh_token, no client_authorization entry, the settings
\* persisted and the return value true.
C5_ExchangeStoresValidToken ==
  (last.op = EXCHANGE /\ GrantWithRefreshToken(last.out)) =>
    ExchangeCompleted /\ HoldsValidToken(access_token_obj, now)

\* C5 (amended): as C5, but the stored Token expires max(0, expires_in - 60)
\* seconds after the exchange, so it is valid on return only if expires_in > 60.
C5_ExchangeStoresToken ==
  (last.op = EXCHANGE /\ GrantWithRefreshToken(last.out)) =>
    /\ ExchangeCompleted
    /\ access_token_obj.expires_at = now + Max(0, last.out.body.expires_in.v - 60)
    /\ HoldsValidToken(access_token_obj, now) <=> last.out.body.expires_in.v > 60

C5_Witness ==
  /\ last.op = EXCHANGE /\ GrantWithRefreshToken(last.out)
  /\ last.out.body.expires_in.v = 60
  /\ access_token_obj # NoToken /\ ~is_valid(access_token_obj, now)
  /\ settings.client_refresh_token = "R2"

\* C6: for every token-endpoint outcome other than a well-formed success
\* exchange_code_for_token returns false (no error escapes), and the Token,
\* client_authorization and client_refresh_token are unchanged and nothing is
\* persisted.
C6_ExchangeFailureIsContained ==
  [][ (last'.op = EXCHANGE /\ last'.out.kind # "none" /\ ~GrantAnswer(last'.out)) =>
        /\ last'.ret = PyFalse
        /\ ~last'.saved
        /\ UNCHANGED <<access_token_obj, settings, store>> ]_vars

\* the refresh token is gone and no valid Token is held
RefreshDead ==
  ~Truthy(settings.client_refresh_token) /\ ~HoldsValidToken(access_token_obj, now)

InvalidGrantAnswer(out) ==
  out.kind = "http" /\ out.status = 400 /\ out.body.json = "object"
  /\ out.body.error = "invalid_grant"

\* C7: a refresh answered with 400 invalid_grant clears client_refresh_token
\* and persists the settings, and from then on, until a new login (a
\* successful exchange), every get_valid_token_string call returns no token.
C7_InvalidGrantIsTerminal ==
  [][ /\ (last'.op = GVTS /\ InvalidGrantAnswer(last'.out)) =>
            /\ settings'.client_refresh_token = None
            /\ last'.saved /\ store' = settings'
            /\ last'.ret = None
            /\ RefreshDead'
      /\ (RefreshDead /\ ~(last'.op = EXCHANGE /\ last'.ret = PyTrue)) => RefreshDead'
      /\ (RefreshDead /\ last'.op = GVTS) => (last'.ret = None /\ last'.posts = 0) ]_vars

C7_Witness ==
  /\ last.op = GVTS /\ InvalidGrantAnswer(last.out)
  /\ settings.client_refresh_token = None /\ store = settings

\* C8: after refresh_access_token succeeds the new Token is held; a
\* refresh_token in the answer is stored in client_refresh_token and
\* persisted, and without one client_refresh_token is unchanged.
C8_RefreshStoresTokenAndRotation ==
  [][ (last'.op = GVTS /\ last'.refreshed = PyTrue) =>
        /\ GrantAnswer(last'.out)
        /\ access_token_obj' = Token(last'.out.body.access_token,
                                     last'.out.body.expires_in.v, now)
        /\ IF Truthy(last'.out.body.refresh_token)
             THEN /\ settings'.client_refresh_token = last'.out.body.refresh_token
                  /\ last'.saved /\ store' = settings'
             ELSE settings'.client_refresh_token = settings.client_refresh_token ]_vars

C8_Witness ==
  /\ last.op = GVTS /\ last.refreshed = PyTrue
  /\ last.out.body.refresh_token = "R2"
  /\ settings.client_refresh_token = "R2" /\ store = settings
  /\ access_token_obj.token_string = last.out.body.access_token

\* C9: exchange_code_for_token and refresh_access_token called while
\* client_id, client_secret, the authorization code or the refresh token is
\* missing return false without a request to the token endpoint and without
\* retry or backoff sleep.
C9_MissingPreconditionSendsNothing ==
  [][ /\ ( /\ last'.op = EXCHANGE
           /\ \/ ~Truthy(last'.arg)
              \/ ~Truthy(settings.client_id)
              \/ ~Truthy(settings.client_secret) ) =>
            /\ last'.ret = PyFalse
            /\ last'.posts = 0 /\ last'.calls <= 1 /\ last'.sleeps = 0
      /\ ( /\ last'.op = GVTS /\ ~HoldsValidToken(access_token_obj, now)
           /\ \/ ~Truthy(settings.client_refresh_token)
              \/ ~Truthy(settings.client_id)
              \/ ~Truthy(settings.client_secret) ) =>
            /\ last'.refreshed = PyFalse
            /\ last'.posts = 0 /\ last'.calls <= 1 /\ last'.sleeps = 0 ]_vars

C9_Witness ==
  /\ last.op = EXCHANGE /\ Truthy(last.arg)
  /\ Truthy(settings.client_id) /\ ~Truthy(settings.client_secret)
  /\ last.ret = PyFalse /\ last.calls = 1 /\ last.posts = 0

Failure == {None, PyFalse}

\* C10: when get_valid_token_string yields no token, the operation returns
\* failure/unknown without issuing its Web API request, and the retry wrapper
\* invokes the request function exactly once with no backoff sleep.
C10_NoTokenNoRequest ==
  (last.call.kind # "nocall" /\ last.call.last_token = None) =>
    /\ last.op # "poll" => last.ret \in Failure
    /\ last.call.requests = 0 /\ last.call.calls = 1 /\ last.call.sleeps = 0

\* C10 (amended): when get_valid_token_string yields no token in the first
\* invocation of a wrapped request, no Web API request is issued and the
\* wrapper invokes the request function exactly once with no backoff sleep;
\* when it yields none in a later invocation (the Token expired between the
\* attempts and the refresh failed), the wrapper returns at once without
\* another request or sleep.  In both cases the operation returns
\* failure/unknown.
C10_NoTokenAbortsTheCall ==
  /\ (last.call.kind # "nocall" /\ last.call.first_token = None) =>
       last.call.requests = 0 /\ last.call.calls = 1 /\ last.call.sleeps = 0
  /\ (last.call.kind # "nocall" /\ last.call.last_token = None) =>
       /\ last.call.kind = "none"
       /\ last.op # "poll" => last.ret \in Failure
       /\ last.call.requests = last.call.calls - 1
       /\ last.call.sleeps = last.call.calls - 1
  /\ (last.tally.wrapped > 0 /\ last.tally.no_token) =>
       /\ last.tally.requests = 0 /\ last.tally.sleeps = 0
       /\ last.tally.invocations = last.tally.wrapped

C10_Witness ==
  /\ last.op = "toggle_shuffle" /\ last.ret = None
  /\ last.tally.wrapped = 2 /\ last.tally.no_token /\ last.tally.requests = 0

Alive == { i \in DOMAIN loops : is_alive(loops, i) }

\* C11: after any sequence of start_polling_updates and stop_polling_updates
\* calls at most one polling loop is executing, also when the stop's bounded
\* wait expired before the old loop had ended.
C11_AtMostOneLoop == Cardinality(Alive) <= 1

StopCalled == last.op = "stop_polling_updates"
StartCalled == last.op = "start_polling_updates"

\* C12: once stop_polling_updates has been called and start_polling_updates
\* is not called again, the polling loops eventually exit; a loop that was
\* sleeping when the stop signal was set exits without another fetch.
C12_StopEndsTheLoop ==
  /\ StopCalled ~> (Alive = {} \/ StartCalled)
  /\ [][ \A i \in DOMAIN loops :
           loops[i].pc = "woken" => loops'[i].pc \in {"woken", "exited"} ]_vars

\* the controller is Stopped: start_polling_updates would start a thread
Stopped == ~is_alive(loops, polling_thread)

\* C13: stop_polling_updates always returns and leaves the controller
\* Stopped: it sets the stop signal, waits for the loop for a bounded time
\* and returns, with a warning, even when the loop is still busy (while it
\* waits its return is enabled whatever the loop does).
C13_StopReturns ==
  /\ running.op = "stop_polling_updates" =>
       (stop_polling_event /\ ENABLED StopJoinReturns)
  /\ (StopCalled /\ running = NoOp) =>
       /\ Stopped
       /\ last.note \in {"not running", "did not stop in time", "stopped"}
       /\ last.note # "not running" => (polling_thread = 0 /\ stop_polling_event)

C13_Witness ==
  /\ StopCalled /\ last.note = "did not stop in time"
  /\ polling_thread = 0 /\ stop_polling_event
  /\ \E i \in DOMAIN loops : loops[i].pc = "fetch"

\* thread i leaves get_playback_state and the change detection
FetchStep(i) == i \in DOMAIN loops /\ loops[i].pc = "fetch" /\ loops'[i].pc # "fetch"

\* thread i does the fan-out
NotifyStep(i) == i \in DOMAIN loops /\ loops[i].pc = "notify" /\ loops'[i].pc # "notify"

ComparedFields ==
  {"timestamp", "item", "is_playing", "shuffle_state", "repeat_state", "device",
   "volume_percent"}

DifferingFields(new_state, latest) ==
  { f \in ComparedFields : new_state[f] # latest[f] }

\* C14: for two consecutively fetched snapshots that differ in only one of
\* the compared fields the tick produces exactly one notification per
\* subscriber, carrying the new snapshot; for two identical snapshots it
\* produces none.
C14_OneFieldChangeNotifiesOnce ==
  [][ \A i \in DOMAIN loops :
        /\ ( /\ FetchStep(i) /\ loops'[i].at # "fetch"
             /\ loops'[i].new_state # NoState /\ latest_playback_state # NoState ) =>
             LET diff == DifferingFields(loops'[i].new_state, latest_playback_state)
             IN  /\ Cardinality(diff) = 1 =>
                      /\ loops'[i].pc = "notify"
                      /\ latest_playback_state' = loops'[i].new_state
                 /\ diff = {} =>
                      /\ loops'[i].pc \in AfterTick
                      /\ UNCHANGED <<latest_playback_state, idle_queue>>
        /\ NotifyStep(i) =>
             /\ Len(idle_queue') = Len(idle_queue) + Len(update_callbacks)
             /\ \A k \in DOMAIN update_callbacks :
                  /\ idle_queue'[Len(idle_queue) + k].fn = update_callbacks[k]
                  /\ idle_queue'[Len(idle_queue) + k].state = loops[i].new_state ]_vars

\* C15: a tick that finds no state while a state is cached clears the cache
\* and notifies every subscriber with None; a tick that finds a state while
\* none is cached stores it and notifies every subscriber with it; a tick
\* that finds no state while none is cached changes nothing and notifies no
\* one.
C15_AvailabilityChangeNotifies ==
  [][ \A i \in DOMAIN loops :
        /\ (FetchStep(i) /\ loops'[i].at # "fetch") =>
             LET found == loops'[i].new_state
             IN  /\ (found = NoState /\ latest_playback_state # NoState) =>
                      (latest_playback_state' = NoState /\ loops'[i].pc = "notify")
                 /\ (found # NoState /\ latest_playback_state = NoState) =>
                      (latest_playback_state' = found /\ loops'[i].pc = "notify")
                 /\ (found = NoState /\ latest_playback_state = NoState) =>
                      /\ loops'[i].pc \in AfterTick
                      /\ UNCHANGED <<latest_playback_state, idle_queue>>
        /\ NotifyStep(i) =>
             \A cb \in Callbacks :
               InList(update_callbacks, cb) =>
                 \E k \in DOMAIN idle_queue' :
                   /\ k > Len(idle_queue)
                   /\ idle_queue'[k] = IdleCall(cb, None, loops[i].new_state) ]_vars

\* C16: for every playback-state record the API can return, also one whose
\* item or device is null, a tick completes its change test without
\* raising, so the polling loop keeps running.
C16_ChangeTestNeverRaises ==
  \A i \in DOMAIN loops : ~(loops[i].pc = "crashed" /\ loops[i].at = "update")

\* C17: registering a new subscriber while a state S is cached schedules
\* the delivery of S to that subscriber exactly once, in every interleaving
\* with a polling tick.
C17_RegistrationDeliversCachedState ==
  [][ ( /\ running.op = "register_update_callback" /\ running' = NoOp
        /\ running.seen # NoState ) =>
        idle_queue' = Append(idle_queue, IdleCall(running.cb, None, running.seen)) ]_vars

\* C18: no subscriber callback runs on the polling thread: the fan-out and
\* the delivery at registration only queue the call, and the main loop runs
\* it.
C18_CallbacksRunOnMainLoop ==
  /\ [](\A r \in ran : r.thread = "main")
  /\ [][ /\ ran' # ran =>
              /\ idle_queue # <<>>
              /\ ran' = ran \cup {Ran(Head(idle_queue).fn, "main")}
              /\ idle_queue' = Tail(idle_queue)
         /\ \A i \in DOMAIN loops :
              NotifyStep(i) => Len(idle_queue') = Len(idle_queue) + Len(update_callbacks)
         /\ ( /\ running.op = "register_update_callback" /\ running' = NoOp
              /\ latest_playback_state # NoState ) =>
              Len(idle_queue') = Len(idle_queue) + 1 ]_vars

C18_Witness ==
  /\ Ran("cb1", "main") \in ran
  /\ last.op = "callback" /\ last.arg = "cb1"
  /\ latest_playback_state # NoState

\* C19: for each detected change the notifications are queued in the order
\* in which the subscribers registered, one per subscriber, each carrying
\* the whole new state.
C19_FanOutInRegistrationOrder ==
  [][ \A i \in DOMAIN loops :
        NotifyStep(i) =>
          /\ Len(idle_queue') = Len(idle_queue) + Len(update_callbacks)
          /\ \A k \in DOMAIN idle_queue : idle_queue'[k] = idle_queue[k]
          /\ \A k \in DOMAIN update_callbacks :
               idle_queue'[Len(idle_queue) + k] =
                 IdleCall(update_callbacks[k], None, latest_playback_state') ]_vars

C19_Witness ==
  /\ update_callbacks = <<"cb2", "cb1">>
  /\ Len(idle_queue) = 2
  /\ idle_queue[1].fn = "cb2" /\ idle_queue[2].fn = "cb1"
  /\ idle_queue[1].state = latest_playback_state
  /\ idle_queue[2].state = latest_playback_state
  /\ latest_playback_state # NoState

NoDuplicates(callbacks) ==
  \A j, k \in DOMAIN callbacks : callbacks[j] = callbacks[k] => j = k

\* C20: the subscriber registry never holds a callback twice; registering a
\* registered callback and unregistering an absent one leave the registry
\* unchanged, deliver nothing and raise nothing.
C20_RegistryIsASet ==
  /\ []NoDuplicates(update_callbacks)
  /\ [][ /\ ( /\ last' # last /\ last'.op = "register_update_callback"
              /\ running = NoOp /\ InList(update_callbacks, last'.arg) ) =>
              /\ UNCHANGED <<update_callbacks, idle_queue, ran, running>>
              /\ last'.ret = None
         /\ ( /\ last' # last /\ last'.op = "unregister_update_callback"
              /\ ~InList(update_callbacks, last'.arg) ) =>
              /\ UNCHANGED <<update_callbacks, idle_queue, ran, running>>
              /\ last'.ret = None ]_vars

C20_Witness ==
  /\ last.op = "register_update_callback" /\ last.note = "already registered"
  /\ InList(update_callbacks, last.arg)
  /\ Len(update_callbacks) = 2

\* the classes of outcome the wrapper tells apart
TransientError(out) ==
  \/ out.kind = "transport"
  \/ out.kind = "http" /\ (out.status >= 500 \/ out.status = 429)

ClientError(out) ==
  out.kind = "http" /\ out.status >= 400 /\ out.status <= 499 /\ out.status # 429

Success(out) == out.kind = "http" /\ out.status >= 200 /\ out.status <= 299

Called == wrapper_call.kind # "none"

\* every invocation before the n-th failed with a transient error
TransientBefore(n) ==
  \A k \in 1..(n - 1) : TransientError(wrapper_call.script[k])

\* C21: when the wrapped call answers with an HTTP status in 400..499 other
\* than 429, the wrapper raises that failure at once: after exactly one
\* invocation and no sleep when it is the first answer, and with no further
\* invocation or sleep when transient failures came before it.
C21_ClientErrorFailsAtOnce ==
  Called =>
    \A n \in DOMAIN wrapper_call.script :
      (ClientError(wrapper_call.script[n]) /\ TransientBefore(n)) =>
        /\ wrapper_call.kind = "raise"
        /\ wrapper_call.out = wrapper_call.script[n]
        /\ wrapper_call.calls = n
        /\ Len(wrapper_call.sleeps) = n - 1

C21_Witness ==
  /\ wrapper_call.parameters.max_retries = TokenMaxRetries
  /\ wrapper_call.script = << Http(404, NoBody) >>
  /\ wrapper_call.kind = "raise" /\ wrapper_call.calls = 1 /\ wrapper_call.sleeps = <<>>

\* C22: when the wrapped call fails k times with a transient error and then
\* succeeds, k < max_retries, the wrapper returns the successful response
\* after exactly k+1 invocations and k sleeps; with the defaults a call that
\* fails twice and succeeds on the third attempt succeeds.
C22_TransientFailuresAreRetried ==
  Called =>
    \A n \in DOMAIN wrapper_call.script :
      ( /\ Success(wrapper_call.script[n])
        /\ TransientBefore(n)
        /\ n - 1 < wrapper_call.parameters.max_retries ) =>
        /\ wrapper_call.kind = "return"
        /\ wrapper_call.out = wrapper_call.script[n]
        /\ wrapper_call.calls = n
        /\ Len(wrapper_call.sleeps) = n - 1

C22_Witness ==
  /\ wrapper_call.parameters =
       DecoratorParameters(TokenMaxRetries, TokenInitialBackoff, DefaultMaxBackoff)
  /\ wrapper_call.script = << Http(500, NoBody), Transport, Http(200, NoBody) >>
  /\ wrapper_call.kind = "return" /\ wrapper_call.calls = 3
  /\ Len(wrapper_call.sleeps) = 2

\* C23: when every attempt fails with a transient error, the wrapper invokes
\* the wrapped call exactly max_retries times, sleeps exactly max_retries - 1
\* times (never after the final attempt) and then raises the failure of the
\* last attempt.
C23_ExhaustionRaisesLastFailure ==
  LET m == wrapper_call.parameters.max_retries
  IN  ( /\ Called
        /\ Len(wrapper_call.script) = m
        /\ TransientBefore(m + 1) ) =>
        /\ wrapper_call.kind = "raise"
        /\ wrapper_call.out = wrapper_call.script[m]
        /\ wrapper_call.calls = m
        /\ Len(wrapper_call.sleeps) = m - 1

C23_Witness ==
  /\ wrapper_call.parameters.max_retries = TokenMaxRetries
  /\ wrapper_call.script = << Transport, Http(500, NoBody), Http(429, NoBody) >>
  /\ wrapper_call.kind = "raise" /\ wrapper_call.out = Http(429, NoBody)
  /\ wrapper_call.calls = 3 /\ Len(wrapper_call.sleeps) = 2

\* C24: the base backoff of the i-th sleep is
\* min(initial_backoff * 2^(i-1), max_backoff): it starts at initial_backoff,
\* doubles after each sleep, never exceeds max_backoff, and the backoffs of
\* successive sleeps within one call are strictly increasing.
C24_BackoffDoublesStrictly ==
  LET q == wrapper_call.parameters
      sleeps == wrapper_call.sleeps
  IN  /\ \A i \in DOMAIN sleeps :
           /\ sleeps[i] = Min(q.initial_backoff * 2^(i - 1), q.max_backoff)
           /\ sleeps[i] <= q.max_backoff
      /\ \A i \in DOMAIN sleeps : i > 1 => sleeps[i - 1] < sleeps[i]

\* C24 (amended): the first sleep uses initial_backoff as it is, every later
\* sleep min(2 * previous, max_backoff).  For initial_backoff <= max_backoff
\* the i-th backoff is therefore min(initial_backoff * 2^(i-1), max_backoff)
\* and never exceeds max_backoff; successive backoffs are strictly
\* increasing until max_backoff is reached and equal to it from then on.
C24_BackoffDoublesUpToTheCap ==
  LET q == wrapper_call.parameters
      sleeps == wrapper_call.sleeps
  IN  /\ \A i \in DOMAIN sleeps :
           /\ i = 1 => sleeps[i] = q.initial_backoff
           /\ i > 1 => sleeps[i] = Min(q.initial_backoff * 2^(i - 1), q.max_backoff)
           /\ q.initial_backoff <= q.max_backoff =>
                /\ sleeps[i] = Min(q.initial_backoff * 2^(i - 1), q.max_backoff)
                /\ sleeps[i] <= q.max_backoff
                /\ i > 1 => IF sleeps[i - 1] < q.max_backoff
                               THEN sleeps[i - 1] < sleeps[i]
                               ELSE sleeps[i - 1] = sleeps[i]

C24_Witness ==
  /\ wrapper_call.parameters = DecoratorParameters(4, 1, 2)
  /\ wrapper_call.sleeps = << 1, 2, 2 >>

\* seconds since the Token in access_token_obj was constructed
TokenAge == now - last.constructed_at

\* C25: for all expires_in >= 60 a freshly constructed Token is valid
\* immediately after construction and invalid once the clock has advanced
\* past expires_in - 60 seconds; at every instant is_valid holds exactly when
\* the current time is before expires_at.
C25_TokenValidFrom60 ==
  (last.op = "Token" /\ last.is_valid # None) =>
    /\ last.is_valid = PyTrue <=> now < access_token_obj.expires_at
    /\ last.expires_in >= 60 =>
         /\ TokenAge = 0 => last.is_valid = PyTrue
         /\ TokenAge > last.expires_in - 60 => last.is_valid = PyFalse

\* C25 (amended): a Token constructed with expires_in is valid exactly while
\* less than max(0, expires_in - 60) seconds have passed since its
\* construction: for expires_in > 60 it is valid immediately after
\* construction and invalid from expires_in - 60 seconds on, for
\* expires_in <= 60 it is never valid; at every instant is_valid holds
\* exactly when the current time is before expires_at.
C25_TokenValidAbove60 ==
  (last.op = "Token" /\ last.is_valid # None) =>
    /\ last.is_valid = PyTrue <=> now < access_token_obj.expires_at
    /\ last.is_valid = PyTrue <=> TokenAge < Max(0, last.expires_in - 60)
    /\ last.expires_in > 60 =>
         /\ TokenAge = 0 => last.is_valid = PyTrue
         /\ TokenAge >= last.expires_in - 60 => last.is_valid = PyFalse
    /\ last.expires_in <= 60 => last.is_valid = PyFalse

C25_Witness ==
  /\ last.op = "Token" /\ last.expires_in = 62
  /\ TokenAge = 2 /\ last.is_valid = PyFalse

\* the result that stands for "unknown": what a query returns for a failure
Unknown == None

\* the wrapped request of the operation came back with HTTP `status`
Answered(status) == last.call.kind = "return" /\ last.call.status = status

\* C26: get_playback_state returns the parsed record on HTTP 200, a "no
\* active state" result on HTTP 204 that the caller can tell apart from the
\* error result, and "unknown" for any other outcome after retries; it never
\* raises to the caller.
C26_PlaybackStateResults ==
  last.op = "get_playback_state" =>
    /\ ~IsRaised(last.ret)
    /\ IF Answered(200) /\ last.call.json = "object"
         THEN last.ret = "state" /\ last.state = last.call.state
       ELSE IF Answered(204)
         THEN last.ret # Unknown /\ last.state = NoState
       ELSE last.ret = Unknown /\ last.state = NoState

SimpleControls == {"play", "pause", "next_track", "previous_track"}

\* C27: play, pause, next_track and previous_track return true exactly when
\* their request completes with HTTP 204 and false for every other response
\* status, for a missing token and for any request failure after retries;
\* they never raise to the caller.
C27_ControlsReturnSuccessBoolean ==
  last.op \in SimpleControls =>
    /\ last.ret \in {PyTrue, PyFalse}
    /\ last.ret = PyTrue <=> Answered(204)

\* toggle_shuffle could not determine the current shuffle state: the reads of
\* the cache and of a fresh fetch yielded none
Undetermined == last.current = None \/ IsRaised(last.current)

\* C28: toggle_shuffle, when the current shuffle state cannot be determined
\* (neither the cache nor a fresh fetch yields a shuffle_state), issues no
\* PUT request and returns "unknown".
C28_UndeterminedShuffleIsNotToggled ==
  (last.op = "toggle_shuffle" /\ Undetermined) =>
    /\ last.control_requests = 0 /\ last.sent = None
    /\ last.ret = Unknown

\* C29: toggle_shuffle, when the current shuffle state s is determinable,
\* makes exactly one PUT call, with state = not s, and returns not s if that
\* PUT was answered with HTTP 204 and "unknown" otherwise.
C29_ShuffleIsNegated ==
  (last.op = "toggle_shuffle" /\ ~Undetermined) =>
    LET s == last.current
        not_s == IF s = PyTrue THEN PyFalse ELSE PyTrue
    IN  /\ last.sent = (IF s = PyTrue THEN "false" ELSE "true")
        /\ last.control_requests <= ApiMaxRetries
        /\ IF Answered(204) /\ last.control_requests > 0
             THEN last.ret = not_s
             ELSE last.ret = Unknown

\* C30: for every integer percent, set_volume(percent) issues its request
\* with volume_percent = min(max(percent, 0), 100), a value within 0..100;
\* set_volume(150) sends 100 and set_volume(-20) sends 0.
C30_VolumeIsClamped ==
  last.op = "set_volume" =>
    /\ \A percent \in VolumeInputs :
         last.arg = ToString(percent) =>
           \E sent \in 0..100 :
             /\ last.sent = ToString(sent)
             /\ percent < 0 => sent = 0
             /\ percent > 100 => sent = 100
             /\ percent \in 0..100 => sent = percent
    /\ last.arg = "150" => last.sent = "100"
    /\ last.arg = "-20" => last.sent = "0"

C30_Witness ==
  /\ last.op = "set_volume" /\ last.arg = "150" /\ last.sent = "100"
  /\ last.control_requests = 1 /\ last.ret = PyTrue

\* the login window was led to https://stream-controller/callback?code=<CODE>
RedirectWithCode ==
  last'.op = "_on_decide_policy" /\ last'.arg \in AuthorizationCodes

\* C32: for each login window, when navigation reaches the redirect target
\* https://stream-controller/callback?code=<CODE>, the navigation is cancelled
\* (the handler answers True after decision.ignore()), the window is closed
\* and the code is handed to the completion callback exactly once.
C32_RedirectIsInterceptedOnce ==
  [][ RedirectWithCode =>
        /\ last'.ret = PyTrue
        /\ open_windows' = open_windows - 1
        /\ idle_queue' = Append(idle_queue,
                                 IdleCall("handle_auth_code", last'.arg, NoState)) ]_vars

C32_Witness ==
  /\ last.op = "_on_decide_policy" /\ last.arg = "c1" /\ last.ret = PyTrue
  /\ open_windows = 0
  /\ idle_queue = << IdleCall("handle_auth_code", "c1", NoState) >>

\* the credentials in use: authorization codes, the client secret, refresh
\* tokens and bearer tokens
SecretValues ==
  { v \in AuthorizationCodes
            \cup {settings.client_secret, store.client_secret,
                  settings.client_refresh_token, store.client_refresh_token,
                  settings.client_authorization, store.client_authorization,
                  access_token_obj.token_string,
                  last.out.body.access_token, last.out.body.refresh_token}
    : Truthy(v) }

\* C33: no log entry written by the token/playback core or by the
\* browser-capture window contains the full value of a bearer token, a
\* refresh token, the client secret or the authorization code.
C33_NoSecretIsLogged ==
  last.logged \cap SecretValues = {}

\* C35: handle_auth_code(code), for every prior content of the settings
\* (also settings without a client_refresh_token entry), stores code as
\* client_authorization, leaves no client_refresh_token entry and persists
\* the settings.
C35_AuthCodeIsStored ==
  last.op = "handle_auth_code" =>
    /\ ~IsRaised(last.ret)
    /\ store.client_authorization = last.arg
    /\ store.client_refresh_token = Absent
    /\ last.saved

\* get_valid_token_string ran a refresh_access_token that did not succeed
RefreshFailed == last'.op = GVTS /\ last'.refreshed \notin {"no", PyTrue}

\* C39: a refresh_access_token that fails for any reason other than a 400
\* invalid_grant response (transport failure, 5xx or 429 after the retries,
\* another 4xx, a success status with a malformed body) leaves
\* client_refresh_token and the held Token unchanged and does not persist
\* the settings.
C39_FailedRefreshChangesNothing ==
  [][ (RefreshFailed /\ ~InvalidGrantAnswer(last'.out)) =>
        /\ settings'.client_refresh_token = settings.client_refresh_token
        /\ access_token_obj' = access_token_obj
        /\ ~last'.saved /\ store' = store ]_vars

\* a refresh that was retried to exhaustion on a server error
C39_Witness ==
  /\ last.op = GVTS /\ last.refreshed = PyFalse
  /\ last.out = Http(500, NoBody) /\ last.posts = TokenMaxRetries
  /\ settings.client_refresh_token = "R1" /\ ~last.saved

PyBooleans == {PyTrue, PyFalse}

\* two toggle_shuffle calls in a row, both successful
ToggledTwice ==
  /\ last.op = "toggle_shuffle" /\ last.before # NoBefore
  /\ last.before.ret \in PyBooleans /\ last.ret \in PyBooleans

\* C40: two toggle_shuffle calls that both succeed with no polling tick
\* between them send the same target value and return the same result.
C40_RepeatedToggleRepeatsTarget ==
  ToggledTwice => (last.sent = last.before.sent /\ last.ret = last.before.ret)

\* C40 (amended): when the cached state holds a shuffle_state s, two
\* toggle_shuffle calls that both succeed with no polling tick between them
\* both send the target not s and return not s, the cache being left as it
\* was; when no state is cached each call takes s from its own fresh fetch.
C40_RepeatedToggleRepeatsCachedTarget ==
  (ToggledTwice /\ ShuffleOf(latest_playback_state) # None) =>
    LET s == ShuffleOf(latest_playback_state)
        not_s == IF s = PyTrue THEN PyFalse ELSE PyTrue
    IN  /\ last.sent = last.before.sent /\ last.ret = last.before.ret
        /\ last.ret = not_s
        /\ last.current = s

C40_Witness ==
  /\ ToggledTwice
  /\ ShuffleOf(latest_playback_state) = PyFalse
  /\ last.sent = "true" /\ last.before.sent = "true"
  /\ last.ret = PyTrue /\ last.before.ret = PyTrue

\* the fetch of the tick just taken failed: no token was available, or the
\* request ended in an error once the retries were used up
FetchFailed ==
  /\ last'.op = "poll" /\ ~IsRaised(last'.ret)
  /\ \/ last'.call.kind = "none"
     \/ /\ last'.call.kind = "raise"
        /\ last'.call.exc \in {"HTTPError", "RequestException"}

\* the fetch of the tick just taken was answered with HTTP 204
FetchFoundNothing ==
  /\ last'.op = "poll" /\ ~IsRaised(last'.ret)
  /\ last'.call.kind = "return" /\ last'.call.status = 204

\* C38: a polling tick whose fetch fails (no token, or a request error after
\* the retries) while a state is cached is handled exactly like an HTTP 204:
\* the cache is cleared and every subscriber is notified with none; the
\* cached state is not retained.
C38_FailedFetchClearsTheCache ==
  [][ ((FetchFailed \/ FetchFoundNothing) /\ latest_playback_state # NoState) =>
        /\ latest_playback_state' = NoState
        /\ idle_queue' = idle_queue \o [k \in DOMAIN update_callbacks |->
                                          IdleCall(update_callbacks[k], None, NoState)]
        /\ last'.ret = "changed" ]_vars

C38_Witness ==
  /\ last.op = "poll" /\ last.ret = "changed"
  /\ last.call.kind = "raise" /\ last.call.exc \in {"HTTPError", "RequestException"}
  /\ latest_playback_state = NoState
  /\ Len(idle_queue) = 2
  /\ \A k \in DOMAIN idle_queue : idle_queue[k].state = NoState

\* the main loop takes the delivery at the head of the idle queue and runs it
DeliveryRuns == idle_queue # <<>> /\ idle_queue' = Tail(idle_queue)

\* C36: after unregister_update_callback(cb) has returned, cb is never
\* invoked again, whatever polling tick or earlier-enqueued delivery was in
\* progress at the time of the call: a callback the main loop runs is a
\* registered one.
C36_UnregisteredIsNeverInvoked ==
  [][ DeliveryRuns => InList(update_callbacks, Head(idle_queue).fn) ]_vars

\* register_update_callback returns, a tick having replaced the cached state
\* since the callback was appended
RegistrationEndsAfterAChange ==
  /\ running.op = "register_update_callback" /\ running' = NoOp
  /\ running.seen # latest_playback_state

\* C37: in every interleaving of register_update_callback(cb) with a polling
\* tick that replaces the cached state by S, cb does not miss the change: a
\* delivery to cb carrying S, or a value cached later, is enqueued by the
\* tick's fan-out or by the immediate delivery at registration.  When the
\* registration ends after the store, the delivery is enqueued at that step,
\* or the fan-out has enqueued it, or the fan-out is still to come; and a
\* fan-out reaches every callback in the list, one being registered included.
C37_RegistrationDoesNotMissAChange ==
  [][ /\ RegistrationEndsAfterAChange =>
           LET delivery == IdleCall(running.cb, None, latest_playback_state)
           IN  \/ idle_queue' = Append(idle_queue, delivery)
               \/ \E k \in DOMAIN idle_queue : idle_queue[k] = delivery
               \/ \E i \in DOMAIN loops : loops[i].pc = "notify"
      /\ \A i \in DOMAIN loops :
           NotifyStep(i) =>
             \A cb \in Callbacks :
               InList(update_callbacks, cb) =>
                 \E k \in (Len(idle_queue) + 1)..Len(idle_queue') :
                   idle_queue'[k] = IdleCall(cb, None, latest_playback_state) ]_vars

\* a tick stored a new state and fanned it out while cb was being registered
C37_Witness ==
  /\ running.op = "register_update_callback"
  /\ running.seen # latest_playback_state
  /\ latest_playback_state # NoState
  /\ \E k \in DOMAIN idle_queue :
       idle_queue[k] = IdleCall(running.cb, None, latest_playback_state)

\* both threads have been through refresh_access_token and have returned
BothRefreshed == \A t \in Threads : refreshing[t].pc = "done"

\* C34: when the polling thread and a user-triggered operation run
\* refresh_access_token concurrently for the same expired Token, the
\* client_refresh_token stored once both have finished is the most recently
\* issued one: an invalid_grant for the older refresh token never erases or
\* replaces a rotated refresh token stored by the other refresh.
C34_ConcurrentRefreshKeepsNewestToken ==
  BothRefreshed =>
    /\ settings.client_refresh_token = honoured
    /\ store.client_refresh_token = honoured

====
